---- MODULE Spec2Model ----
(***************************************************************************)
(* homo-ludens: the profile merge performed by the sync handlers (web      *)
(* routes and CLI commands), the bounded message log of the conversation   *)
(* models, and the Xbox total-achievement estimate.                        *)
(*                                                                         *)
(* The specifications of this module:                                      *)
(*   Spec           the sync handlers acting on the persisted profile      *)
(*   SpecConv       add_message on ConversationHistory and Conversation    *)
(*   SpecXbox       the estimate of XboxClient.get_owned_games             *)
(*   SpecGame       the Game objects the clients build, stored by a sync   *)
(*   SpecEnrich     the per-game and per-item lookups of a Steam sync      *)
(*   SpecTrophies   PSNClient.get_owned_games with individual trophies     *)
(*   SpecRarity     percent_to_rarity_tier                                 *)
(*   SpecCompletion completion_percent                                     *)
(*   SpecDigest     the profile digest given to the recommender            *)
(*   SpecLoad       load_profile on any profile file                       *)
(*   SpecRace       two sync requests on one profile file                  *)
(*   SpecChat       the conversation store under the chat routes and CLI   *)
(***************************************************************************)
EXTENDS Integers, Sequences, FiniteSets, TLC

VARIABLES
    profile_file,   \* profile.json: [exists, format, data]
    req,            \* the locals of the handler that ran last (cleared on return)
    history,        \* a ConversationHistory
    conversation,   \* a Conversation
    historyLog,     \* every message passed to history.add_message, in order
    conversationLog,\* every message passed to conversation.add_message, in order
    title,          \* the achievement block of an Xbox title being normalised
    total_ach,      \* the estimate computed for it (-1: not computed yet)
    achievement_stats, \* the stats built for it: <<>> (none) or <<[total, unlocked]>>
    api_response,   \* what the platform API answered to the last library fetch
    args,           \* the arguments of the function being applied
    returned,       \* <<>> before the call, then <<the value it returned>>
    conversation_path, \* the legacy conversation.json
    conversations_dir, \* conversations/<id>.json, one file per uuid
    uuids,          \* the uuids generated so far
    chat_session,   \* the running CLI chat: its in-memory history
    imports,        \* conversations imported from the present legacy file
    last_call,      \* the chat handler that ran last: its inputs and outcome
    procs,          \* two sync requests running at once: position and locals
    writes          \* the requests that saved the profile, in order

vars == <<profile_file, req, history, conversation, historyLog, conversationLog,
          title, total_ach, achievement_stats, api_response, args, returned,
          conversation_path, conversations_dir, uuids, chat_session, imports, last_call,
          procs, writes>>

syncVars == <<profile_file, req>>
convVars == <<history, conversation, historyLog, conversationLog>>
xboxVars == <<title, total_ach, achievement_stats>>
gameVars == <<api_response>>
callVars == <<args, returned>>
storeVars == <<conversation_path, conversations_dir, uuids, chat_session, imports, last_call>>
raceVars == <<procs, writes>>

-----------------------------------------------------------------------------
(* Bounds *)

\* longest library a platform returns in one fetch
MaxFetch == 2
\* longest wishlist Steam returns
MaxWish == 1
\* updated_at is a clock kept modulo ClockMod
ClockMod == 2
\* largest max_messages a conversation is created with
MaxCap == 3
\* add_message calls on one conversation
MaxAdds == 4
\* largest totalAchievements / currentAchievements a title reports
MaxReported == 2
MaxUnlocked == 9
\* progressPercentage is a percentage
MaxPercent == 100

\* platform-native ids the APIs hand out
SteamAppIds == {1}
WishAppIds == {1, 2}
NpCommunicationIds == {1, 2}
XboxTitleIds == {1, 2}

-----------------------------------------------------------------------------
(* Sequences helpers *)

Range(s) == {s[i] : i \in 1..Len(s)}

\* all sequences over S of length <= n without a repeated element
DistinctSeqs(S, n) ==
    UNION {{s \in [1..k -> S] : \A i, j \in 1..k : i # j => s[i] # s[j]} : k \in 0..n}

Min(a, b) == IF a < b THEN a ELSE b
Max(a, b) == IF a > b THEN a ELSE b

-----------------------------------------------------------------------------
(* models/game.py: Platform, Game, WishlistItem, UserProfile *)

STEAM == "steam"
PLAYSTATION == "playstation"
XBOX == "xbox"

\* the prefix of the ids the platform's client builds
PrefixOf(platform) ==
    IF platform = STEAM THEN "steam" ELSE IF platform = PLAYSTATION THEN "psn" ELSE "xbox"

\* UserProfile(): every field at its default
UserProfile ==
    [steam_id |-> "None", psn_online_id |-> "None", xbox_gamertag |-> "None",
     games |-> <<>>, wishlist |-> <<>>, updated_at |-> 0]

-----------------------------------------------------------------------------
(* storage/local.py *)

\* A file on disk: whether it exists, and what a reader finds in it:
\*   "ok"            JSON that fits the model it is validated against
\*   "not_json"      text json.load cannot parse (a truncated write, say)
\*   "other_schema"  JSON that model_validate rejects
\* data is what the file holds when its format is "ok".
FileFormats == {"ok", "not_json", "other_schema"}
File(data) == [exists |-> TRUE, format |-> "ok", data |-> data]
NoFile(data) == [exists |-> FALSE, format |-> "ok", data |-> data]
BadFile(format, data) == [exists |-> TRUE, format |-> format, data |-> data]

\* json.load followed by Model.model_validate: either of them may raise
json_load_raises(file) == file.format = "not_json"
model_validate_raises(file) == file.format = "other_schema"
Unreadable(file) == json_load_raises(file) \/ model_validate_raises(file)

\* load_profile with every exception of the read escaping (no try)
load_profile_uncaught(file) ==
    IF file.exists
    THEN IF Unreadable(file) THEN [raised |-> TRUE, value |-> UserProfile]
         ELSE [raised |-> FALSE, value |-> file.data]
    ELSE [raised |-> FALSE, value |-> UserProfile]

\* Storage.load_profile as a call: whether it raised, and what it returned.
\* The read is inside try / except Exception, which returns UserProfile().
load_profile_call(file) ==
    IF file.exists
    THEN IF Unreadable(file) THEN [raised |-> FALSE, value |-> UserProfile]
         ELSE [raised |-> FALSE, value |-> file.data]
    ELSE [raised |-> FALSE, value |-> UserProfile]

\* load_profile: the stored profile, or a new one when there is no readable file
load_profile(file) == load_profile_call(file).value

\* save_profile: refresh updated_at and overwrite the file
save_profile(file, profile) ==
    [exists |-> TRUE, format |-> "ok",
     data |-> [profile EXCEPT !.updated_at = (file.data.updated_at + 1) % ClockMod]]

-----------------------------------------------------------------------------
(* models/game.py: Conversation, ConversationHistory; storage/local.py: the  *)
(* conversation store (conversations/<id>.json) and the legacy file          *)

\* uuids the server generates
MaxUuids == 2
\* chat requests and CLI inputs handled in one run
MaxCalls == 3
\* the default max_messages of Conversation and ConversationHistory
MaxMessagesDefault == 4
\* a max_messages a legacy file may carry instead of the default
LegacyCap == MaxMessagesDefault + 1

ConvIds == 1..MaxUuids

DEFAULT_TITLE == "New Conversation"
IMPORTED_TITLE == "Imported Conversation"

\* ConversationHistory(messages=...): max_messages at its default
ConversationHistory(messages) == [messages |-> messages, max_messages |-> MaxMessagesDefault]

\* Conversation(id=..., title=..., messages=...): max_messages at its default
Conversation(id, new_title, messages) ==
    [id |-> id, title |-> new_title, messages |-> messages,
     max_messages |-> MaxMessagesDefault, updated_at |-> 0]

NoConversationFile == NoFile(Conversation(0, "", <<>>))
NoLegacyFile == NoFile(ConversationHistory(<<>>))

\* str(uuid.uuid4()): an id never generated before
uuid4(used) == CHOOSE id \in ConvIds \ used : \A other \in ConvIds \ used : id <= other

\* Storage.get_conversation: None when there is no file; json.load and
\* model_validate are outside any try
get_conversation(dir, conv_id) ==
    LET file == dir[conv_id]
    IN [raised |-> file.exists /\ Unreadable(file),
        value |-> IF file.exists /\ ~Unreadable(file) THEN <<file.data>> ELSE <<>>]

\* Storage.save_conversation_v2: stamp updated_at and overwrite <id>.json
\* (the store keeps no clock: every save stamps the same instant)
save_conversation_v2(dir, conv) ==
    [dir EXCEPT ![conv.id] = File([conv EXCEPT !.updated_at = 0])]

\* Storage.create_conversation: a new conversation under a new uuid, saved
create_conversation(dir, used, new_title) ==
    LET conv == Conversation(uuid4(used), new_title, <<>>)
        saved == save_conversation_v2(dir, conv)
    IN [dir |-> saved, uuids |-> used \cup {conv.id}, value |-> saved[conv.id].data]

\* Storage.delete_conversation
delete_conversation(dir, conv_id) ==
    IF dir[conv_id].exists
    THEN [dir |-> [dir EXCEPT ![conv_id] = NoConversationFile], value |-> TRUE]
    ELSE [dir |-> dir, value |-> FALSE]

\* Storage.rename_conversation
rename_conversation(dir, conv_id, new_title) ==
    LET got == get_conversation(dir, conv_id)
        saved == save_conversation_v2(dir, [got.value[1] EXCEPT !.title = new_title])
    IN IF got.raised THEN [raised |-> TRUE, dir |-> dir, value |-> <<>>]
       ELSE IF got.value # <<>>
       THEN [raised |-> FALSE, dir |-> saved, value |-> <<saved[conv_id].data>>]
       ELSE [raised |-> FALSE, dir |-> dir, value |-> <<>>]

\* Storage.list_conversations: the metadata of every readable file; an
\* unreadable one is skipped. The order (newest first) is left out.
list_conversations(dir) ==
    {[id |-> dir[i].data.id, title |-> dir[i].data.title,
      message_count |-> Len(dir[i].data.messages)] :
        i \in {j \in ConvIds : dir[j].exists /\ ~Unreadable(dir[j])}}

\* migrate_legacy_conversation leaving conversation.json in place
migrate_legacy_conversation_keeps_file(path, dir, used) ==
    LET conv == Conversation(uuid4(used), IMPORTED_TITLE, path.data.messages)
        saved == save_conversation_v2(dir, conv)
    IN IF path.exists /\ ~Unreadable(path) /\ path.data.messages # <<>>
       THEN [path |-> path, dir |-> saved, uuids |-> used \cup {conv.id},
             value |-> <<saved[conv.id].data>>]
       ELSE [path |-> path, dir |-> dir, uuids |-> used, value |-> <<>>]

\* Storage.migrate_legacy_conversation: a readable legacy file with messages
\* becomes a new conversation and is removed; in every other case (no file,
\* unreadable file, empty message list) nothing is done and None is returned
migrate_legacy_conversation(path, dir, used) ==
    LET conv == Conversation(uuid4(used), IMPORTED_TITLE, path.data.messages)
        saved == save_conversation_v2(dir, conv)
    IN IF path.exists /\ ~Unreadable(path) /\ path.data.messages # <<>>
       THEN [path |-> NoLegacyFile, dir |-> saved, uuids |-> used \cup {conv.id},
             value |-> <<saved[conv.id].data>>]
       ELSE [path |-> path, dir |-> dir, uuids |-> used, value |-> <<>>]

\* Storage.load_conversation (legacy): json.load and model_validate are
\* outside any try
load_conversation(path) ==
    [raised |-> path.exists /\ Unreadable(path),
     value |-> IF path.exists /\ ~Unreadable(path) THEN path.data
               ELSE ConversationHistory(<<>>)]

\* Storage.save_conversation (legacy)
save_conversation(path, hist) == File(hist)

\* Storage.clear_conversation (legacy)
clear_conversation(path) == NoLegacyFile

-----------------------------------------------------------------------------
(* The platform clients: what one fetch returns *)

\* SteamClient.get_owned_games: one Game per entry of response.games
steam_get_owned_games(appids) ==
    [i \in 1..Len(appids) |-> [id |-> <<"steam", appids[i]>>, platform |-> STEAM]]

\* SteamClient.get_wishlist: one WishlistItem per entry of response.items
get_wishlist(appids) ==
    [i \in 1..Len(appids) |-> [id |-> <<"steam", appids[i]>>, app_id |-> appids[i]]]

\* PSNClient.get_owned_games: one Game per trophy title
psn_get_owned_games(np_ids) ==
    [i \in 1..Len(np_ids) |-> [id |-> <<"psn", np_ids[i]>>, platform |-> PLAYSTATION]]

\* XboxClient.get_owned_games: one Game per title of type "Game"
RECURSIVE xbox_get_owned_games(_)
xbox_get_owned_games(titles) ==
    IF titles = <<>> THEN <<>>
    ELSE LET t == Head(titles)
             rest == xbox_get_owned_games(Tail(titles))
         IN IF t.type # "Game" THEN rest
            ELSE <<[id |-> <<"xbox", t.titleId>>, platform |-> XBOX]>> \o rest

\* The result of constructing a client and fetching from it, as a handler sees it:
\*   unconfigured  the platform's environment variables are not set
\*   api_error     the client raised its own error type (SteamAPIError, ...)
\*   crash         another exception left the client (httpx, psnawp)
\*   ok            the fetch returned games (and, for Steam, wishlist)
Result(kind, games, wishlist) == [kind |-> kind, games |-> games, wishlist |-> wishlist]
NoResult == Result("none", <<>>, <<>>)
Failed(kind) == Result(kind, <<>>, <<>>)

\* Steam: get_owned_games lets httpx errors through (raise_for_status outside any
\* try); a missing key or id and a failed wishlist fetch raise SteamAPIError
SteamResults ==
    {Failed(k) : k \in {"unconfigured", "api_error", "crash"}}
    \cup {Result("ok", steam_get_owned_games(a), get_wishlist(w)) :
            a \in DistinctSeqs(SteamAppIds, MaxFetch), w \in DistinctSeqs(WishAppIds, MaxWish)}

\* PlayStation: the constructor wraps only PSNAWPAuthenticationError; get_owned_games
\* wraps everything
PSNResults ==
    {Failed(k) : k \in {"unconfigured", "api_error", "crash"}}
    \cup {Result("ok", psn_get_owned_games(a), <<>>) : a \in DistinctSeqs(NpCommunicationIds, MaxFetch)}

\* Xbox: constructor and get_owned_games wrap every exception in XboxAPIError,
\* the ValueError of assigning Game.achievement_stats included; an "ok" fetch is
\* one whose titles carry no achievement counts
XboxTitles ==
    {[titleId |-> i, type |-> "Game"] : i \in XboxTitleIds} \cup {[titleId |-> 3, type |-> "App"]}
XboxResults ==
    {Failed(k) : k \in {"unconfigured", "api_error"}}
    \cup {Result("ok", xbox_get_owned_games(t), <<>>) : t \in DistinctSeqs(XboxTitles, MaxFetch)}

-----------------------------------------------------------------------------
(* The handlers.  Each takes the profile file and the results of its client  *)
(* calls and returns the file afterwards with the handler's locals.          *)

\* [g for g in profile.games if g.platform != platform]
RemovePlatformAppend(games, platform) == games
RemovePlatform(games, platform) == SelectSeq(games, LAMBDA g : g.platform # platform)

Locals(op, s, p, x, opts, file, saves, raised) ==
    [op |-> op, steam |-> s, psn |-> p, xbox |-> x, opts |-> opts,
     pre |-> file, saves |-> saves, raised |-> raised, repeat |-> FALSE]

NoOpts == [achievements |-> FALSE, wishlist |-> TRUE]
Idle == Locals("none", NoResult, NoResult, NoResult, NoOpts,
               NoFile(UserProfile), 0, FALSE)

Out(file, locals) == [file |-> file, locals |-> locals]

\* the handler returned (or raised) without reaching save_profile
NotSaved(op, s, p, x, opts, file, raised) ==
    Out(file, Locals(op, s, p, x, opts, file, 0, raised))

\* (variant: the fetched wishlist is appended to the stored one)
sync_steam_keeps_wishlist(file, s) ==
    IF s.kind = "ok" THEN
        LET profile == load_profile(file)
            merged == [profile EXCEPT
                         !.games = RemovePlatform(profile.games, STEAM) \o s.games,
                         !.wishlist = profile.wishlist \o s.wishlist,
                         !.steam_id = "steam_id"]
        IN Out(save_profile(file, merged),
               Locals("sync_steam", s, NoResult, NoResult, NoOpts, file, 1, FALSE))
    ELSE NotSaved("sync_steam", s, NoResult, NoResult, NoOpts, file, s.kind = "crash")

\* web POST /sync/steam
sync_steam(file, s) ==
    IF s.kind = "ok" THEN
        LET profile == load_profile(file)
            merged == [profile EXCEPT
                         !.games = RemovePlatform(profile.games, STEAM) \o s.games,
                         !.wishlist = s.wishlist,
                         !.steam_id = "steam_id"]
        IN Out(save_profile(file, merged),
               Locals("sync_steam", s, NoResult, NoResult, NoOpts, file, 1, FALSE))
    ELSE NotSaved("sync_steam", s, NoResult, NoResult, NoOpts, file, s.kind = "crash")

\* (variant: the fetched games are appended without removing the old ones)
sync_psn_appends(file, p) ==
    IF p.kind = "ok" THEN
        LET profile == load_profile(file)
            merged == [profile EXCEPT
                         !.games = profile.games \o p.games,
                         !.psn_online_id = "online_id"]
        IN Out(save_profile(file, merged),
               Locals("sync_psn", NoResult, p, NoResult, NoOpts, file, 1, FALSE))
    ELSE NotSaved("sync_psn", NoResult, p, NoResult, NoOpts, file, p.kind = "crash")

\* web POST /sync/psn
sync_psn(file, p) ==
    IF p.kind = "ok" THEN
        LET profile == load_profile(file)
            merged == [profile EXCEPT
                         !.games = RemovePlatform(profile.games, PLAYSTATION) \o p.games,
                         !.psn_online_id = "online_id"]
        IN Out(save_profile(file, merged),
               Locals("sync_psn", NoResult, p, NoResult, NoOpts, file, 1, FALSE))
    ELSE NotSaved("sync_psn", NoResult, p, NoResult, NoOpts, file, p.kind = "crash")

\* (variant: the profile is saved on the error path too)
sync_xbox_saves_on_error(file, x) ==
    LET profile == load_profile(file)
        merged == IF x.kind = "ok"
                  THEN [profile EXCEPT
                          !.games = RemovePlatform(profile.games, XBOX) \o x.games,
                          !.xbox_gamertag = "gamertag"]
                  ELSE profile
    IN Out(save_profile(file, merged),
           Locals("sync_xbox", NoResult, NoResult, x, NoOpts, file, 1, FALSE))

\* web POST /sync/xbox
sync_xbox(file, x) ==
    IF x.kind = "ok" THEN
        LET profile == load_profile(file)
            merged == [profile EXCEPT
                         !.games = RemovePlatform(profile.games, XBOX) \o x.games,
                         !.xbox_gamertag = "gamertag"]
        IN Out(save_profile(file, merged),
               Locals("sync_xbox", NoResult, NoResult, x, NoOpts, file, 1, FALSE))
    ELSE NotSaved("sync_xbox", NoResult, NoResult, x, NoOpts, file, FALSE)

\* web POST /sync/all: the three blocks in order on one in-memory profile, then
\* save_profile; only the platform's own error type is caught
sync_all(file, s, p, x) ==
    LET profile0 == load_profile(file)
        profile1 == IF s.kind = "ok"
                    THEN [profile0 EXCEPT
                            !.games = RemovePlatform(profile0.games, STEAM) \o s.games,
                            !.wishlist = s.wishlist,
                            !.steam_id = "steam_id"]
                    ELSE profile0
        profile2 == IF p.kind = "ok"
                    THEN [profile1 EXCEPT
                            !.games = RemovePlatform(profile1.games, PLAYSTATION) \o p.games,
                            !.psn_online_id = "online_id"]
                    ELSE profile1
        profile3 == IF x.kind = "ok"
                    THEN [profile2 EXCEPT
                            !.games = RemovePlatform(profile2.games, XBOX) \o x.games,
                            !.xbox_gamertag = "gamertag"]
                    ELSE profile2
    IN IF s.kind = "crash"
       THEN NotSaved("sync_all", s, NoResult, NoResult, NoOpts, file, TRUE)
       ELSE IF p.kind = "crash"
       THEN NotSaved("sync_all", s, p, NoResult, NoOpts, file, TRUE)
       ELSE Out(save_profile(file, profile3),
                Locals("sync_all", s, p, x, NoOpts, file, 1, FALSE))

\* CLI `sync`: SteamClient() is built without a configuration check, so a missing
\* key is a SteamAPIError; with --achievements the count of games with achievements
\* reads Game.achievement_stats, which Game does not have, before the save; without
\* it the same read happens after the save
cli_sync(file, s, opts) ==
    LET wishlist_items == IF opts.wishlist THEN s.wishlist ELSE <<>>
        fetched == Result("ok", s.games, wishlist_items)
        profile == load_profile(file)
        merged == [profile EXCEPT
                     !.games = s.games,
                     !.wishlist = wishlist_items,
                     !.steam_id = "steam_id"]
    IN IF s.kind # "ok"
       THEN NotSaved("cli_sync", s, NoResult, NoResult, opts, file, s.kind = "crash")
       ELSE IF opts.achievements /\ s.games # <<>>
       THEN NotSaved("cli_sync", fetched, NoResult, NoResult, opts, file, TRUE)
       ELSE Out(save_profile(file, merged),
                Locals("cli_sync", fetched, NoResult, NoResult, opts, file, 1,
                       s.games # <<>>))

\* CLI chat `/refresh`
refresh_library(file, s) ==
    LET profile == load_profile(file)
        merged == [profile EXCEPT
                     !.games = s.games,
                     !.wishlist = s.wishlist,
                     !.steam_id = "steam_id"]
    IN IF s.kind # "ok"
       THEN NotSaved("refresh_library", s, NoResult, NoResult, NoOpts, file,
                     s.kind = "crash")
       ELSE Out(save_profile(file, merged),
                Locals("refresh_library", s, NoResult, NoResult, NoOpts, file, 1,
                       s.games # <<>>))

\* CLI `sync-psn`
cli_sync_psn(file, p) ==
    IF p.kind = "ok" THEN
        LET profile == load_profile(file)
            existing_non_psn == RemovePlatform(profile.games, PLAYSTATION)
            merged == [profile EXCEPT
                         !.games = existing_non_psn \o p.games,
                         !.psn_online_id = "online_id"]
        IN Out(save_profile(file, merged),
               Locals("cli_sync_psn", NoResult, p, NoResult, NoOpts, file, 1,
                      p.games # <<>>))
    ELSE NotSaved("cli_sync_psn", NoResult, p, NoResult, NoOpts, file, p.kind = "crash")

\* the handler named op, on the given client results
Run(op, file, s, p, x, opts) ==
    CASE op = "sync_steam" -> sync_steam(file, s)
      [] op = "sync_psn" -> sync_psn(file, p)
      [] op = "sync_xbox" -> sync_xbox(file, x)
      [] op = "sync_all" -> sync_all(file, s, p, x)
      [] op = "cli_sync" -> cli_sync(file, s, opts)
      [] op = "refresh_library" -> refresh_library(file, s)
      [] op = "cli_sync_psn" -> cli_sync_psn(file, p)

-----------------------------------------------------------------------------
(* Actions of the sync specification *)

Apply(out) ==
    /\ profile_file' = out.file
    /\ req' = out.locals
    /\ UNCHANGED <<convVars, xboxVars, gameVars, callVars, storeVars, raceVars>>

WebSyncSteam ==
    /\ req.op = "none"
    /\ \E s \in SteamResults : Apply(sync_steam(profile_file, s))

WebSyncPsn ==
    /\ req.op = "none"
    /\ \E p \in PSNResults : Apply(sync_psn(profile_file, p))

WebSyncXbox ==
    /\ req.op = "none"
    /\ \E x \in XboxResults : Apply(sync_xbox(profile_file, x))

WebSyncAll ==
    /\ req.op = "none"
    /\ \E s \in SteamResults, p \in PSNResults, x \in XboxResults :
         Apply(sync_all(profile_file, s, p, x))

\* the CLI has no "unconfigured" early return for Steam: the constructor raises
CliSync ==
    /\ req.op = "none"
    /\ \E s \in SteamResults, a \in BOOLEAN, w \in BOOLEAN :
         /\ s.kind # "unconfigured"
         /\ Apply(cli_sync(profile_file, s, [achievements |-> a, wishlist |-> w]))

CliRefresh ==
    /\ req.op = "none"
    /\ \E s \in SteamResults :
         /\ s.kind # "unconfigured"
         /\ Apply(refresh_library(profile_file, s))

CliSyncPsn ==
    /\ req.op = "none"
    /\ \E p \in PSNResults : Apply(cli_sync_psn(profile_file, p))

\* the same request once more, the platforms answering as before
Repeat ==
    /\ req.op # "none"
    /\ ~req.repeat
    /\ LET out == Run(req.op, profile_file, req.steam, req.psn, req.xbox, req.opts)
       IN /\ profile_file' = out.file
          /\ req' = [out.locals EXCEPT !.repeat = TRUE]
    /\ UNCHANGED <<convVars, xboxVars, gameVars, callVars, storeVars, raceVars>>

\* the handler has returned: its locals are gone
Return ==
    /\ req.op # "none"
    /\ req' = Idle
    /\ UNCHANGED <<profile_file, convVars, xboxVars, gameVars, callVars, storeVars, raceVars>>

ConvIdle ==
    /\ history = [messages |-> <<>>, max_messages |-> 0]
    /\ conversation = [messages |-> <<>>, max_messages |-> 0, updated_at |-> 0]
    /\ historyLog = <<>>
    /\ conversationLog = <<>>

XboxIdle ==
    /\ title = [totalAchievements |-> 0, currentAchievements |-> 0,
                progressPercentage |-> 0, totalGamerscore |-> 0]
    /\ total_ach = -1
    /\ achievement_stats = <<>>

SyncIdle ==
    /\ profile_file = NoFile(UserProfile)
    /\ req = Idle

GameIdle == api_response = [platform |-> "none", items |-> <<>>]

CallIdle == args = <<>> /\ returned = <<>>

\* the CLI chat is not running
NoSession == [running |-> FALSE, history |-> ConversationHistory(<<>>)]

EmptyDir == [i \in ConvIds |-> NoConversationFile]

\* no chat handler has run yet
NoCall ==
    [seq |-> 0, op |-> "none", conv_id |-> 0, temp |-> FALSE, message |-> "",
     raised |-> FALSE, error |-> FALSE, value |-> <<>>,
     pre_dir |-> EmptyDir, pre_path |-> NoLegacyFile, pre_session |-> NoSession]

StoreIdle ==
    /\ conversation_path = NoLegacyFile
    /\ conversations_dir = EmptyDir
    /\ uuids = {}
    /\ chat_session = NoSession
    /\ imports = 0
    /\ last_call = NoCall

Procs == {1, 2}

\* a sync request: where it stands (start, loaded, done), its handler, what
\* its clients fetched, the profile file as it read it, and how many saves
\* had happened when it read it
Proc(pc, handler, s, p, loaded, loaded_at) ==
    [pc |-> pc, handler |-> handler, steam |-> s, psn |-> p, loaded |-> loaded,
     loaded_at |-> loaded_at]

\* no request
IdleProc == Proc("start", "none", NoResult, NoResult, NoFile(UserProfile), 0)

RaceIdle ==
    /\ procs = [p \in Procs |-> IdleProc]
    /\ writes = <<>>

Init == SyncIdle /\ ConvIdle /\ XboxIdle /\ GameIdle /\ CallIdle /\ StoreIdle /\ RaceIdle

Next ==
    \/ WebSyncSteam
    \/ WebSyncPsn
    \/ WebSyncXbox
    \/ WebSyncAll
    \/ CliSync
    \/ CliRefresh
    \/ CliSyncPsn
    \/ Repeat
    \/ Return

Spec == Init /\ [][Next]_vars

-----------------------------------------------------------------------------
(* models/game.py: ConversationHistory.add_message, Conversation.add_message *)

Roles == {"user", "assistant"}
Contents == {"a"}

ConversationMessage(role, content) == [role |-> role, content |-> content]

\* Python's seq[-k:] : a start of -k counts from the end when it is negative,
\* and -0 is 0, the start of the list
SliceFirst(seq, k) == SubSeq(seq, 1, Min(k, Len(seq)))
SliceLast(seq, k) ==
    LET start == -k
        n == Len(seq)
        from == IF start < 0 THEN Max(n + start, 0) ELSE Min(start, n)
    IN SubSeq(seq, from + 1, n)

\* append, then trim when the list is longer than max_messages
Trim(messages, max_messages) ==
    IF Len(messages) > max_messages THEN SliceLast(messages, max_messages) ELSE messages

history_add_message(h, role, content) ==
    [h EXCEPT !.messages = Trim(Append(h.messages, ConversationMessage(role, content)),
                                h.max_messages)]

conversation_add_message(c, role, content) ==
    [c EXCEPT !.messages = Trim(Append(c.messages, ConversationMessage(role, content)),
                                c.max_messages),
              !.updated_at = c.updated_at + 1]

HistoryAddMessage ==
    /\ Len(historyLog) < MaxAdds
    /\ \E role \in Roles, content \in Contents :
         /\ history' = history_add_message(history, role, content)
         /\ historyLog' = Append(historyLog, ConversationMessage(role, content))
    /\ UNCHANGED <<conversation, conversationLog, syncVars, xboxVars, gameVars, callVars, storeVars, raceVars>>

ConversationAddMessage ==
    /\ Len(conversationLog) < MaxAdds
    /\ \E role \in Roles, content \in Contents :
         /\ conversation' = conversation_add_message(conversation, role, content)
         /\ conversationLog' = Append(conversationLog, ConversationMessage(role, content))
    /\ UNCHANGED <<history, historyLog, syncVars, xboxVars, gameVars, callVars, storeVars, raceVars>>

InitConv ==
    /\ SyncIdle
    /\ XboxIdle
    /\ \E m \in 0..MaxCap : history = [messages |-> <<>>, max_messages |-> m]
    /\ \E m \in 0..MaxCap :
         conversation = [messages |-> <<>>, max_messages |-> m, updated_at |-> 0]
    /\ historyLog = <<>>
    /\ conversationLog = <<>>
    /\ GameIdle
    /\ CallIdle
    /\ StoreIdle
    /\ RaceIdle

NextConv == HistoryAddMessage \/ ConversationAddMessage

SpecConv == InitConv /\ [][NextConv]_vars

-----------------------------------------------------------------------------
(* xbox/client.py: the total-achievement estimate of get_owned_games *)

Gamerscores == {0, 150, 300}

Titles ==
    [totalAchievements : 0..MaxReported, currentAchievements : 0..MaxUnlocked,
     progressPercentage : 0..MaxPercent, totalGamerscore : Gamerscores]

\* int(a / b) for a >= 0, b > 0: the quotient truncated
IntOfQuotient(a, b) == a \div b

\* round(a / b) for a >= 0, b > 0: to the nearest integer, halves to the even one
RoundOfQuotient(a, b) ==
    LET q == a \div b
        r == a % b
    IN IF 2 * r < b THEN q
       ELSE IF 2 * r > b THEN q + 1
       ELSE IF q % 2 = 0 THEN q ELSE q + 1

\* (variant: the gamerscore rule is never used)
EstimateTotalPercentOnly(t) ==
    IF t.totalAchievements = 0 /\ t.currentAchievements > 0 /\ t.progressPercentage > 0
    THEN IF t.progressPercentage = 100 THEN t.currentAchievements
         ELSE Max(IntOfQuotient(t.currentAchievements * 100, t.progressPercentage),
                  t.currentAchievements)
    ELSE t.totalAchievements

\* total_ach after the recovery heuristic
EstimateTotal(t) ==
    LET current_ach == t.currentAchievements
        reported == t.totalAchievements
        total_gs == t.totalGamerscore
        progress_pct == t.progressPercentage
    IN IF reported = 0 /\ current_ach > 0
       THEN IF progress_pct = 100 THEN current_ach
            ELSE IF progress_pct > 0
                 THEN Max(IntOfQuotient(current_ach * 100, progress_pct), current_ach)
            ELSE IF total_gs > 0 THEN Max(total_gs \div 20, current_ach)
            ELSE reported
       ELSE reported

\* (variant: the stats carry the estimate as it is)
BuildStatsUnclamped(t) ==
    IF EstimateTotal(t) > 0 \/ t.currentAchievements > 0
    THEN <<[total |-> EstimateTotal(t), unlocked |-> t.currentAchievements]>>
    ELSE <<>>

\* the AchievementStats built when total_ach > 0 or current_ach > 0
BuildStats(t) ==
    LET total_ach_ == EstimateTotal(t)
        current_ach == t.currentAchievements
    IN IF total_ach_ > 0 \/ current_ach > 0
       THEN <<[total |-> Max(total_ach_, current_ach), unlocked |-> current_ach]>>
       ELSE <<>>

Estimate ==
    /\ total_ach = -1
    /\ total_ach' = EstimateTotal(title)
    /\ achievement_stats' = BuildStats(title)
    /\ UNCHANGED <<title, syncVars, convVars, gameVars, callVars, storeVars, raceVars>>

InitXbox ==
    /\ SyncIdle
    /\ ConvIdle
    /\ title \in Titles
    /\ total_ach = -1
    /\ achievement_stats = <<>>
    /\ GameIdle
    /\ CallIdle
    /\ StoreIdle
    /\ RaceIdle

NextXbox == Estimate

SpecXbox == InitXbox /\ [][NextXbox]_vars

-----------------------------------------------------------------------------
(* The Game objects the clients build from what the platforms report, and    *)
(* the web sync handlers storing them (specification SpecGame)               *)

\* achievements GetPlayerAchievements lists for one game
MaxAchievements == 2
\* bronze trophies a title defines
MaxTrophies == 1
\* web sync asks for achievements of games played at least this many minutes
EnrichMinPlaytime == 60

\* a Game with the fields the clients set; progress is <<>> (None) or <<stats>>
Game(id, platform, playtime_minutes, progress) ==
    [id |-> id, platform |-> platform, playtime_minutes |-> playtime_minutes,
     progress |-> progress]

\* SteamClient.get_player_achievements: None when the request fails or lists
\* nothing, else total = number listed, unlocked = number with achieved = 1
get_player_achievements(achievements_data) ==
    IF achievements_data = <<>> THEN <<>>
    ELSE <<[type |-> "steam",
            total |-> Len(achievements_data),
            unlocked |-> Cardinality({i \in 1..Len(achievements_data) :
                                        achievements_data[i] = 1})]>>

\* SteamClient.enrich_game_with_achievements
enrich_game_with_achievements(game, achievements_data) ==
    LET progress == get_player_achievements(achievements_data)
    IN IF progress # <<>> THEN [game EXCEPT !.progress = progress] ELSE game

\* the Steam part of a web sync: get_owned_games, then achievements for the
\* games played EnrichMinPlaytime minutes or more
web_steam_games(data) ==
    [i \in 1..Len(data) |->
        LET game == Game(<<"steam", data[i].appid>>, STEAM, data[i].playtime_forever, <<>>)
        IN IF game.playtime_minutes >= EnrichMinPlaytime
           THEN enrich_game_with_achievements(game, data[i].achievements)
           ELSE game]

TrophyCount(set) == set.bronze + set.silver + set.gold + set.platinum

\* PSNClient.get_owned_games, one trophy title
psn_game(trophy_title) ==
    LET game == Game(<<"psn", trophy_title.np_communication_id>>, PLAYSTATION, 0, <<>>)
        total == TrophyCount(trophy_title.defined_trophies[1])
        unlocked == IF trophy_title.earned_trophies # <<>>
                    THEN TrophyCount(trophy_title.earned_trophies[1]) ELSE 0
    IN IF trophy_title.defined_trophies # <<>>
       THEN [game EXCEPT !.progress = <<[type |-> "playstation", total |-> total,
                                         unlocked |-> unlocked]>>]
       ELSE game

psn_games(trophy_titles) == [i \in 1..Len(trophy_titles) |-> psn_game(trophy_titles[i])]

\* XboxClient.get_owned_games, one title of type "Game": the stats built for it
\* are assigned to game.achievement_stats, which is not a field of Game, and
\* the assignment raises ValueError
xbox_game(t) ==
    LET game == Game(<<"xbox", t.titleId>>, XBOX, 0, <<>>)
        built == IF t.achievement # <<>> THEN BuildStats(t.achievement[1]) ELSE <<>>
    IN [raised |-> built # <<>>, game |-> game]

\* XboxClient.get_owned_games: any exception becomes XboxAPIError
xbox_games(titles) ==
    LET played == SelectSeq(titles, LAMBDA t : t.type = "Game")
    IN IF \E i \in 1..Len(played) : xbox_game(played[i]).raised
       THEN Failed("api_error")
       ELSE Result("ok", [i \in 1..Len(played) |-> xbox_game(played[i]).game], <<>>)

\* what the platforms report: libraries of at most one title
SteamPlaytimes == {0, 90}
AchievedFlags == UNION {[1..n -> {0, 1}] : n \in 0..MaxAchievements}
SteamGameData ==
    [appid : SteamAppIds, playtime_forever : SteamPlaytimes, achievements : AchievedFlags]

TrophySets == [bronze : 0..MaxTrophies, silver : {0}, gold : {0}, platinum : 0..1]
\* the trophies earned of a title are among those it defines
TrophyTitles ==
    {t \in [np_communication_id : {1},
            defined_trophies : {<<>>} \cup {<<d>> : d \in TrophySets},
            earned_trophies : {<<>>} \cup {<<e>> : e \in TrophySets}] :
        t.earned_trophies # <<>> =>
            /\ t.defined_trophies # <<>>
            /\ t.earned_trophies[1].bronze <= t.defined_trophies[1].bronze
            /\ t.earned_trophies[1].platinum <= t.defined_trophies[1].platinum}

AchievementBlocks ==
    [totalAchievements : 0..1, currentAchievements : 0..2,
     progressPercentage : {0, 50}, totalGamerscore : {0, 40}]
XboxTitleData ==
    [titleId : {1}, type : {"Game", "App"},
     achievement : {<<>>} \cup {<<b>> : b \in AchievementBlocks}]

Library(items) == {<<>>} \cup {<<i>> : i \in items}

ApplyGame(out, platform, items) ==
    /\ profile_file' = out.file
    /\ req' = out.locals
    /\ api_response' = [platform |-> platform, items |-> items]
    /\ UNCHANGED <<convVars, xboxVars, callVars, storeVars, raceVars>>

GameSyncSteam ==
    /\ req.op = "none"
    /\ \E data \in Library(SteamGameData) :
         ApplyGame(sync_steam(profile_file, Result("ok", web_steam_games(data), <<>>)),
                   STEAM, data)

GameSyncPsn ==
    /\ req.op = "none"
    /\ \E trophy_titles \in Library(TrophyTitles) :
         ApplyGame(sync_psn(profile_file, Result("ok", psn_games(trophy_titles), <<>>)),
                   PLAYSTATION, trophy_titles)

GameSyncXbox ==
    /\ req.op = "none"
    /\ \E titles \in Library(XboxTitleData) :
         ApplyGame(sync_xbox(profile_file, xbox_games(titles)), XBOX, titles)

InitGame == SyncIdle /\ ConvIdle /\ XboxIdle /\ GameIdle /\ CallIdle /\ StoreIdle /\ RaceIdle

NextGame == GameSyncSteam \/ GameSyncPsn \/ GameSyncXbox \/ Return

SpecGame == InitGame /\ [][NextGame]_vars

-----------------------------------------------------------------------------
(* steam/client.py: the lookups a web Steam sync makes for each game and     *)
(* each wishlist item, any of which may fail (specification SpecEnrich)      *)

\* games and wishlist items of one sync, together
MaxBatch == 2

\* one Steam Store appdetails request: it fails, reports no success, or
\* returns the data
StoreLookups == {"error", "none", "data"}

SUPPORTED_LANGUAGES == <<"english", "schinese">>
LangCodes == {"en", "schinese"}
LangOf(code) == IF code = "en" THEN "english" ELSE "schinese"

API_NAME == "name from GetOwnedGames"
StoreName(language) == <<"name from appdetails", language>>

\* SteamClient.get_game_details: raise_for_status outside any try
get_game_details(lookup, language) ==
    [raised |-> lookup = "error",
     value |-> IF lookup = "data"
               THEN <<[name |-> StoreName(language),
                       short_description |-> "description from appdetails"]>>
               ELSE <<>>]

\* SteamClient.get_localized_game_name: one request per language, each in its
\* own try; the names found, by language code
get_localized_game_name(lookups) ==
    [code \in LangCodes |->
        LET details == get_game_details(lookups[LangOf(code)], LangOf(code))
        IN IF ~details.raised /\ details.value # <<>>
           THEN <<details.value[1].name>> ELSE <<>>]

\* SteamClient.get_owned_games, one entry of response.games
steam_game(game_data) ==
    Game(<<"steam", game_data.appid>>, STEAM, game_data.playtime_forever, <<>>)
    @@ [name |-> API_NAME,
        localized_names |-> [code \in LangCodes |->
                                IF code = "en" THEN <<API_NAME>> ELSE <<>>]]

\* SteamClient.enrich_game_with_localized_names: game.localized_names.update(...)
enrich_game_with_localized_names(game, lookups) ==
    LET found == get_localized_game_name(lookups)
    IN [game EXCEPT !.localized_names =
            [code \in LangCodes |->
                IF found[code] # <<>> THEN found[code] ELSE game.localized_names[code]]]

\* SteamClient.get_player_achievements with its request: a failed request is
\* caught and gives None
get_player_achievements_call(lookup) ==
    IF lookup.failed THEN <<>> ELSE get_player_achievements(lookup.achievements)

\* sync_steam, one game: achievements when played EnrichMinPlaytime minutes or
\* more, localized names when Chinese display is selected and the game was played
web_enrich_game(game_data, display_language) ==
    LET game == steam_game(game_data)
        progress == get_player_achievements_call(game_data.player_achievements)
        with_progress == IF game.playtime_minutes >= EnrichMinPlaytime /\ progress # <<>>
                         THEN [game EXCEPT !.progress = progress] ELSE game
    IN IF display_language \in {"zh", "schinese"} /\ game.playtime_minutes > 0
       THEN enrich_game_with_localized_names(with_progress, game_data.details)
       ELSE with_progress

\* SteamClient.get_wishlist, one entry of response.items
wishlist_item(item_data) ==
    [id |-> <<"steam", item_data.appid>>, app_id |-> item_data.appid,
     name |-> <<"Unknown", item_data.appid>>, description |-> <<>>, price |-> <<>>]

\* SteamClient.get_price_info: a failed request is caught and gives None
get_price_info(lookup) ==
    IF lookup = "data" THEN <<[currency |-> "USD", discount_percent |-> 0]>> ELSE <<>>

\* (variant: no try around the lookups)
enrich_wishlist_item_uncaught(wl_item, item_data) ==
    LET details == get_game_details(item_data.details, "english")
        named == IF details.value # <<>>
                 THEN [wl_item EXCEPT !.name = details.value[1].name,
                                      !.description = <<details.value[1].short_description>>]
                 ELSE wl_item
    IN [raised |-> details.raised,
        item |-> IF details.raised THEN wl_item
                 ELSE [named EXCEPT !.price = get_price_info(item_data.price)]]

\* SteamClient.enrich_wishlist_item: details, then price, in one try; when the
\* details request raises the price is not asked for
enrich_wishlist_item(wl_item, item_data) ==
    LET details == get_game_details(item_data.details, "english")
        named == IF details.value # <<>>
                 THEN [wl_item EXCEPT !.name = details.value[1].name,
                                      !.description = <<details.value[1].short_description>>]
                 ELSE wl_item
    IN [raised |-> FALSE,
        item |-> IF details.raised THEN wl_item
                 ELSE [named EXCEPT !.price = get_price_info(item_data.price)]]

\* sync_steam up to its load_profile: the games and the wishlist, enriched; an
\* exception other than SteamAPIError leaves the handler
web_steam_fetch(input) ==
    LET games == [i \in 1..Len(input.games) |->
                    web_enrich_game(input.games[i], input.display_language)]
        enriched == [i \in 1..Len(input.wishlist) |->
                        enrich_wishlist_item(wishlist_item(input.wishlist[i]),
                                             input.wishlist[i])]
    IN IF \E i \in 1..Len(enriched) : enriched[i].raised
       THEN Failed("crash")
       ELSE Result("ok", games, [i \in 1..Len(enriched) |-> enriched[i].item])

\* what Steam answers for one game and for one wishlist item
AchievementLookups ==
    {[failed |-> TRUE, achievements |-> <<>>]}
    \cup {[failed |-> FALSE, achievements |-> a] : a \in {<<>>, <<0, 1>>}}
GameLookups ==
    [playtime_forever : SteamPlaytimes, player_achievements : AchievementLookups,
     details : [english : {"error", "data"}, schinese : {"error", "data"}]]
ItemLookups == [details : StoreLookups, price : StoreLookups]

\* n entries with app ids 1..n
Batches(lookups, n) ==
    {[i \in 1..n |-> [appid |-> i] @@ f[i]] : f \in [1..n -> lookups]}

EnrichInputs ==
    UNION {IF n + m > MaxBatch THEN {}
           ELSE {[games |-> g, wishlist |-> w, display_language |-> l] :
                    g \in Batches(GameLookups, n), w \in Batches(ItemLookups, m),
                    l \in {"en", "zh"}} :
           n \in 0..MaxBatch, m \in 0..MaxBatch}

EnrichSyncSteam ==
    /\ req.op = "none"
    /\ \E input \in EnrichInputs :
         ApplyGame(sync_steam(profile_file, web_steam_fetch(input)), STEAM, <<input>>)

InitEnrich == SyncIdle /\ ConvIdle /\ XboxIdle /\ GameIdle /\ CallIdle /\ StoreIdle /\ RaceIdle

NextEnrich == EnrichSyncSteam

SpecEnrich == InitEnrich /\ [][NextEnrich]_vars

-----------------------------------------------------------------------------
(* psn/client.py: get_owned_games with the individual trophies of each title *)
(* (specification SpecTrophies)                                              *)

\* trophies the trophy endpoint lists for one title
MaxListed == 2

\* client.trophies(...) for one title: the number of trophies listed, after how
\* many of them the iterator raises (<<>>: it does not), which of them carries
\* no trophy_id (<<>>: none), and whether the title names a platform
TrophyFetches ==
    {f \in [listed : 0..MaxListed,
            fails_at : {<<>>} \cup {<<k>> : k \in 0..MaxListed},
            invalid : {<<>>} \cup {<<j>> : j \in 1..MaxListed},
            title_platform : BOOLEAN] :
        /\ f.fails_at # <<>> => f.fails_at[1] <= f.listed
        /\ f.invalid # <<>> => f.invalid[1] <= f.listed}

\* the j-th trophy the endpoint lists
Trophy(fetch, j) ==
    [trophy_id |-> IF fetch.invalid = <<j>> THEN <<>> ELSE <<j>>, earned |-> j = 1]

\* PlayStationTrophy(...): trophy_id is a required int
PlayStationTrophy(trophy) ==
    [raised |-> trophy.trophy_id = <<>>,
     value |-> [trophy_id |-> trophy.trophy_id, achieved |-> trophy.earned]]

\* the trophies converted before the first one whose conversion raises
RECURSIVE Converted(_, _, _)
Converted(fetch, j, upto) ==
    IF j > upto \/ PlayStationTrophy(Trophy(fetch, j)).raised THEN <<>>
    ELSE <<PlayStationTrophy(Trophy(fetch, j)).value>> \o Converted(fetch, j + 1, upto)

\* (variant: the iterator is consumed trophy by trophy inside the loop)
fetch_trophies_streamed(fetch) ==
    IF ~fetch.title_platform THEN <<>>
    ELSE Converted(fetch, 1, IF fetch.fails_at # <<>> THEN fetch.fails_at[1] ELSE fetch.listed)

\* get_owned_games, the inner try: list(client.trophies(...)) reads every page
\* before the first trophy is converted, so an iterator that raises leaves
\* trophies = []; except Exception: pass keeps what was appended before a
\* conversion raised
fetch_trophies(fetch) ==
    IF ~fetch.title_platform THEN <<>>
    ELSE IF fetch.fails_at # <<>> THEN <<>>
    ELSE Converted(fetch, 1, fetch.listed)

\* get_owned_games, one trophy title with its trophies
psn_game_with_trophies(trophy_title) ==
    LET game == psn_game(trophy_title)
    IN IF game.progress = <<>> THEN game
       ELSE [game EXCEPT !.progress =
                <<game.progress[1] @@ [trophies |-> fetch_trophies(trophy_title.fetch)]>>]

\* PSNClient.get_owned_games
psn_owned_games(trophy_titles) ==
    [i \in 1..Len(trophy_titles) |-> psn_game_with_trophies(trophy_titles[i])]

\* a title whose trophies are fetched whole
PlainFetch == [listed |-> 1, fails_at |-> <<>>, invalid |-> <<>>, title_platform |-> TRUE]

TitleWith(trophy_title, np_id, fetch) ==
    [np_communication_id |-> np_id,
     defined_trophies |-> trophy_title.defined_trophies,
     earned_trophies |-> trophy_title.earned_trophies,
     fetch |-> fetch]

\* the trophy titles of an account: none, one, or two of which one at least
\* is fetched whole
TrophyAccounts ==
    {<<>>}
    \cup {<<TitleWith(t, 1, f)>> : t \in TrophyTitles, f \in TrophyFetches}
    \cup {<<TitleWith(t, 1, f), TitleWith(u, 2, PlainFetch)>> :
             t \in TrophyTitles, f \in TrophyFetches, u \in TrophyTitles}
    \cup {<<TitleWith(u, 1, PlainFetch), TitleWith(t, 2, f)>> :
             t \in TrophyTitles, f \in TrophyFetches, u \in TrophyTitles}

GetOwnedGames ==
    /\ returned = <<>>
    /\ returned' = <<psn_owned_games(args.trophy_titles)>>
    /\ UNCHANGED <<args, syncVars, convVars, xboxVars, gameVars, storeVars, raceVars>>

InitTrophies ==
    /\ SyncIdle /\ ConvIdle /\ XboxIdle /\ GameIdle /\ StoreIdle /\ RaceIdle
    /\ args \in [trophy_titles : TrophyAccounts]
    /\ returned = <<>>

NextTrophies == GetOwnedGames

SpecTrophies == InitTrophies /\ [][NextTrophies]_vars

-----------------------------------------------------------------------------
(* models/game.py: percent_to_rarity_tier (specification SpecRarity)         *)

\* a percentage is held as an integer number of 1/PercentScale percent
PercentScale == 10
\* percentages range from MaxOutside below 0 to MaxOutside above 100
MaxOutside == 2

Percents == (0 - MaxOutside * PercentScale)..((100 + MaxOutside) * PercentScale)

\* (variant: the comparisons include the threshold)
percent_to_rarity_tier_inclusive(percent) ==
    IF percent = <<>> THEN "None"
    ELSE IF percent[1] >= 50 * PercentScale THEN "common"
    ELSE IF percent[1] >= 20 * PercentScale THEN "uncommon"
    ELSE IF percent[1] >= 10 * PercentScale THEN "rare"
    ELSE IF percent[1] >= 5 * PercentScale THEN "very_rare"
    ELSE "ultra_rare"

\* percent is <<>> (None) or <<p>>
percent_to_rarity_tier(percent) ==
    IF percent = <<>> THEN "None"
    ELSE IF percent[1] > 50 * PercentScale THEN "common"
    ELSE IF percent[1] > 20 * PercentScale THEN "uncommon"
    ELSE IF percent[1] > 10 * PercentScale THEN "rare"
    ELSE IF percent[1] > 5 * PercentScale THEN "very_rare"
    ELSE "ultra_rare"

ClassifyRarity ==
    /\ returned = <<>>
    /\ returned' = <<percent_to_rarity_tier(args.percent)>>
    /\ UNCHANGED <<args, syncVars, convVars, xboxVars, gameVars, storeVars, raceVars>>

InitRarity ==
    /\ SyncIdle /\ ConvIdle /\ XboxIdle /\ GameIdle /\ StoreIdle /\ RaceIdle
    /\ args \in [percent : {<<>>} \cup {<<p>> : p \in Percents}]
    /\ returned = <<>>

NextRarity == ClassifyRarity

SpecRarity == InitRarity /\ [][NextRarity]_vars

-----------------------------------------------------------------------------
(* models/game.py: completion_percent of the progress variants and of Game   *)
(* (specification SpecCompletion).  A completion is held in tenths.          *)

\* largest total / unlocked count of a progress value
MaxCount == 20

\* round(unlocked / total * 100, 1), in tenths
RoundedPercent(unlocked, total) == RoundOfQuotient(unlocked * 1000, total)

\* (variant: the percentage is cut, not rounded)
xbox_completion_percent_truncated(stats) ==
    IF stats.total = 0 THEN 0 ELSE (stats.unlocked * 1000) \div stats.total

steam_completion_percent(stats) ==
    IF stats.total = 0 THEN 0 ELSE RoundedPercent(stats.unlocked, stats.total)

playstation_completion_percent(stats) ==
    IF stats.total = 0 THEN 0 ELSE RoundedPercent(stats.unlocked, stats.total)

xbox_completion_percent(stats) ==
    IF stats.total = 0 THEN 0 ELSE RoundedPercent(stats.unlocked, stats.total)

\* the property of whichever variant game.progress holds
progress_completion_percent(stats) ==
    IF stats.type = "steam" THEN steam_completion_percent(stats)
    ELSE IF stats.type = "playstation" THEN playstation_completion_percent(stats)
    ELSE xbox_completion_percent(stats)

\* Game.completion_percent
game_completion_percent(game) ==
    IF game.progress = <<>> THEN 0 ELSE progress_completion_percent(game.progress[1])

\* the gamerscore pair of an Xbox value, the counts the other variants carry
\* beside total and unlocked: none of them is read
Gamerscore == {[total_gamerscore |-> 0, unlocked_gamerscore |-> 0],
               [total_gamerscore |-> 1000, unlocked_gamerscore |-> 1000]}

ProgressValues ==
    {[type |-> ty, total |-> t, unlocked |-> u,
      total_gamerscore |-> gs.total_gamerscore,
      unlocked_gamerscore |-> gs.unlocked_gamerscore] :
        ty \in {"steam", "playstation", "xbox"}, t \in 0..MaxCount, u \in 0..MaxCount,
        gs \in Gamerscore}

CompletionPercent ==
    /\ returned = <<>>
    /\ returned' = <<game_completion_percent(args.game)>>
    /\ UNCHANGED <<args, syncVars, convVars, xboxVars, gameVars, storeVars, raceVars>>

InitCompletion ==
    /\ SyncIdle /\ ConvIdle /\ XboxIdle /\ GameIdle /\ StoreIdle /\ RaceIdle
    /\ \E pl \in {STEAM, PLAYSTATION, XBOX},
          progress \in {<<>>} \cup {<<st>> : st \in ProgressValues} :
         /\ progress # <<>> => progress[1].type = pl
         /\ args = [game |-> Game(<<PrefixOf(pl), 1>>, pl, 0, progress)]
    /\ returned = <<>>

NextCompletion == CompletionPercent

SpecCompletion == InitCompletion /\ [][NextCompletion]_vars

-----------------------------------------------------------------------------
(* recommender/llm.py: build_context_prompt (specification SpecDigest).      *)
(* The digest is held as a record of its sections, not as text.              *)

\* games and wishlist items of a profile handed to the builder
MaxGames == 2
MaxItems == 1
\* the slices of the sections
TopPlayedLimit == 10
RecentLimit == 5
CompletedLimit == 5
UnplayedLimit == 10
OnSaleLimit == 10
NotOnSaleLimit == 5
\* completion, in tenths, from which a game counts as loved
LovedTenths == 500

\* seq[:k]
SliceHead(seq, k) == SubSeq(seq, 1, Min(k, Len(seq)))

\* sorted(seq, key=..., reverse=True), keys[i] being the key of seq[i]:
\* descending, equal keys in their order
SortedReverse(seq, keys) ==
    LET n == Len(seq)
        rank(i) == 1 + Cardinality({j \in 1..n :
                          \/ keys[j] > keys[i]
                          \/ (keys[j] = keys[i] /\ j < i)})
    IN [k \in 1..n |-> seq[CHOOSE i \in 1..n : rank(i) = k]]

playtimes(games) == [i \in 1..Len(games) |-> games[i].playtime_minutes]
last_playeds(games) == [i \in 1..Len(games) |-> games[i].last_played[1]]

\* reading obj.name: an object without the attribute raises AttributeError
HasAttr(obj, name) == name \in DOMAIN obj

\* _format_game_with_achievements reads game.achievement_stats
format_game_raises(game) == ~HasAttr(game, "achievement_stats")

\* one rendered section: its entries, or its placeholder when there are none
Section(entries, placeholder) ==
    [entries |-> entries, placeholder |-> IF entries = <<>> THEN placeholder ELSE ""]

Digest(raised, text, total, platforms, top, recent, completed, unplayed, prefs, sale, other) ==
    [raised |-> raised, text |-> text, total |-> total, platforms |-> platforms,
     top_played |-> top, recent |-> recent, completed |-> completed,
     unplayed |-> unplayed, prefs |-> prefs, on_sale |-> sale, other |-> other]

NoSection == Section(<<>>, "")
NotSynced ==
    Digest(FALSE, "The user hasn't synced their game library yet.", 0, <<>>,
           NoSection, NoSection, NoSection, NoSection, NoSection, NoSection, NoSection)
AttributeError ==
    Digest(TRUE, "", 0, <<>>,
           NoSection, NoSection, NoSection, NoSection, NoSection, NoSection, NoSection)

\* WishlistItem.is_on_sale
is_on_sale(item) == item.price # <<>> /\ item.price[1].discount_percent > 0

\* _build_wishlist_context: the two sections; nothing at all for an empty wishlist
wishlist_on_sale(profile) ==
    LET on_sale == SelectSeq(profile.wishlist, is_on_sale)
    IN Section(SelectSeq(SliceHead(on_sale, OnSaleLimit), LAMBDA item : item.price # <<>>), "")

wishlist_other(profile) ==
    LET not_on_sale == SliceHead(SelectSeq(profile.wishlist, LAMBDA item : ~is_on_sale(item)),
                                 NotOnSaleLimit)
    IN Section(not_on_sale, "")

\* the stats read through game.achievement_stats: <<>> (None) or <<stats>>
stats_completion_percent(game) ==
    IF game.achievement_stats = <<>> THEN 0
    ELSE progress_completion_percent(game.achievement_stats[1])

stats_completion_percents(games) ==
    [i \in 1..Len(games) |-> stats_completion_percent(games[i])]

build_context_prompt(profile) ==
    LET sorted_games == SortedReverse(profile.games, playtimes(profile.games))
        top_played == SliceHead(sorted_games, TopPlayedLimit)
        with_last_played == SelectSeq(sorted_games, LAMBDA g : g.last_played # <<>>)
        recent == SliceHead(SortedReverse(with_last_played, last_playeds(with_last_played)),
                            RecentLimit)
        games_with_achievements ==
            SelectSeq(sorted_games, LAMBDA g : /\ g.achievement_stats # <<>>
                                              /\ g.achievement_stats[1].total > 0)
        loved == SelectSeq(games_with_achievements,
                           LAMBDA g : stats_completion_percent(g) >= LovedTenths)
        completed_games == SliceHead(SortedReverse(loved, stats_completion_percents(loved)),
                                     CompletedLimit)
        unplayed == SliceHead(SelectSeq(sorted_games, LAMBDA g : g.playtime_minutes = 0),
                              UnplayedLimit)
        steam_games == SelectSeq(profile.games, LAMBDA g : g.platform = STEAM)
        psn_games_ == SelectSeq(profile.games, LAMBDA g : g.platform = PLAYSTATION)
        platform_str ==
            <<[platform |-> STEAM, games |-> Len(steam_games)]>>
            \o (IF psn_games_ # <<>>
                THEN <<[platform |-> PLAYSTATION, games |-> Len(psn_games_)]>>
                ELSE <<>>)
    IN IF profile.games = <<>> THEN NotSynced
       ELSE IF \E i \in 1..Len(top_played) : format_game_raises(top_played[i])
       THEN AttributeError
       ELSE Digest(FALSE, "USER'S GAME LIBRARY", Len(profile.games), platform_str,
                   Section(top_played, ""),
                   Section(recent, "  No recent play data available"),
                   Section(completed_games, "  No achievement data available"),
                   Section(unplayed, "  All games have been played!"),
                   Section(profile.preferences, "No preference data yet."),
                   wishlist_on_sale(profile), wishlist_other(profile))

\* the profiles handed to the builder: games as the clients and the storage
\* build them, with a last-played time or none
LastPlayed == {<<>>, <<1>>, <<2>>}
DigestProgress(platform) ==
    {<<>>} \cup {<<[type |-> platform, total |-> 2, unlocked |-> u]>> : u \in {0, 2}}
DigestGames ==
    UNION {{Game(<<PrefixOf(pl), 1>>, pl, pt, pr) @@ [last_played |-> lp] :
              pt \in {0, 90}, lp \in LastPlayed, pr \in DigestProgress(pl)} :
           pl \in {STEAM, PLAYSTATION, XBOX}}
DigestItems ==
    {[app_id |-> 1, price |-> pr] :
        pr \in {<<>>, <<[discount_percent |-> 0]>>, <<[discount_percent |-> 50]>>}}
DigestProfiles ==
    [games : DistinctSeqs(DigestGames, MaxGames),
     wishlist : DistinctSeqs(DigestItems, MaxItems),
     preferences : {<<>>, <<"Notes: x">>}]

BuildContextPrompt ==
    /\ returned = <<>>
    /\ returned' = <<build_context_prompt(args.profile)>>
    /\ UNCHANGED <<args, syncVars, convVars, xboxVars, gameVars, storeVars, raceVars>>

InitDigest ==
    /\ SyncIdle /\ ConvIdle /\ XboxIdle /\ GameIdle /\ StoreIdle /\ RaceIdle
    /\ args \in [profile : DigestProfiles]
    /\ returned = <<>>

NextDigest == BuildContextPrompt

SpecDigest == InitDigest /\ [][NextDigest]_vars

-----------------------------------------------------------------------------
(* storage/local.py: load_profile on whatever profile.json holds             *)
(* (specification SpecLoad)                                                  *)

\* the games and wishlist items a saved profile holds
StoredGames ==
    Range(steam_get_owned_games(<<1>>)) \cup Range(psn_get_owned_games(<<1, 2>>))
    \cup Range(xbox_get_owned_games(<<[titleId |-> 1, type |-> "Game"]>>))
StoredProfiles ==
    {[UserProfile EXCEPT !.games = g, !.wishlist = w, !.updated_at = u] :
        g \in DistinctSeqs(StoredGames, MaxFetch),
        w \in {get_wishlist(ids) : ids \in DistinctSeqs(WishAppIds, MaxWish)},
        u \in 0..(ClockMod - 1)}

\* profile.json: absent, unreadable, or a saved profile
ProfileFiles ==
    {NoFile(UserProfile)} \cup {BadFile(f, UserProfile) : f \in FileFormats \ {"ok"}}
    \cup {File(profile) : profile \in StoredProfiles}

\* storage.load_profile(): the file is only read
LoadProfile ==
    /\ returned = <<>>
    /\ returned' = <<load_profile_call(profile_file)>>
    /\ UNCHANGED <<args, syncVars, convVars, xboxVars, gameVars, storeVars, raceVars>>

InitLoad ==
    /\ profile_file \in ProfileFiles
    /\ req = Idle
    /\ ConvIdle /\ XboxIdle /\ GameIdle /\ StoreIdle /\ RaceIdle
    /\ args = [file |-> profile_file]
    /\ returned = <<>>

NextLoad == LoadProfile

SpecLoad == InitLoad /\ [][NextLoad]_vars

-----------------------------------------------------------------------------
(* Two sync requests served by two processes on one profile.json             *)
(* (specification SpecRace).  Each request reads the file once               *)
(* (load_profile) and writes it once (save_profile); nothing locks the file  *)
(* between the two, so the steps of the requests interleave freely.          *)

RaceHandlers == {"sync_steam", "sync_psn", "sync_all", "cli_sync_psn"}

RaceSteam == {r \in SteamResults : r.kind = "ok" /\ r.wishlist = <<>>}
RacePsn == {r \in PSNResults : r.kind = "ok"}

\* the requests: a handler with the results its clients fetch; sync_all with
\* each platform fetched or not configured, Xbox not configured
RaceProcs ==
    {Proc("start", "sync_steam", r, NoResult, NoFile(UserProfile), 0) : r \in RaceSteam}
    \cup {Proc("start", h, NoResult, r, NoFile(UserProfile), 0) :
             h \in {"sync_psn", "cli_sync_psn"}, r \in RacePsn}
    \cup {Proc("start", "sync_all", rs, rp, NoFile(UserProfile), 0) :
             rs \in RaceSteam \cup {Failed("unconfigured")},
             rp \in RacePsn \cup {Failed("unconfigured")}}

\* profile.json when the requests arrive
RaceFiles ==
    {NoFile(UserProfile)}
    \cup {File([UserProfile EXCEPT !.games = <<g>>]) : g \in StoredGames}

\* the file a request writes, computed at save time from the file as it was read
written_file_reloaded(proc, file) ==
    Run(proc.handler, file, proc.steam, proc.psn, Failed("unconfigured"), NoOpts).file

\* the file a request writes: the handler's merge applied to the profile it
\* loaded, whatever the file holds by now
written_file(proc, file) ==
    Run(proc.handler, proc.loaded, proc.steam, proc.psn, Failed("unconfigured"), NoOpts).file

\* storage.load_profile() of request p
RaceLoad(p) ==
    /\ procs[p].pc = "start"
    /\ procs[p].handler # "none"
    /\ procs' = [procs EXCEPT ![p].pc = "loaded", ![p].loaded = profile_file,
                              ![p].loaded_at = Len(writes)]
    /\ UNCHANGED <<profile_file, req, writes, convVars, xboxVars, gameVars, callVars, storeVars>>

\* the merge in memory and storage.save_profile(profile) of request p
RaceSave(p) ==
    /\ procs[p].pc = "loaded"
    /\ profile_file' = written_file(procs[p], profile_file)
    /\ procs' = [procs EXCEPT ![p].pc = "done"]
    /\ writes' = Append(writes, p)
    /\ UNCHANGED <<req, convVars, xboxVars, gameVars, callVars, storeVars>>

Load == \E p \in Procs : RaceLoad(p)
Save == \E p \in Procs : RaceSave(p)

InitRace ==
    /\ profile_file \in RaceFiles
    /\ req = Idle
    /\ ConvIdle /\ XboxIdle /\ GameIdle /\ CallIdle /\ StoreIdle
    /\ procs \in [Procs -> RaceProcs]
    /\ writes = <<>>

NextRace == Load \/ Save

SpecRace == InitRace /\ [][NextRace]_vars

-----------------------------------------------------------------------------
(* recommender/llm.py: Recommender; web/routes/chat.py: the chat routes;     *)
(* cli.py: the chat command (specification SpecChat)                         *)

GREETING == "greeting"
APOLOGY == "sorry"
REPLY == "r"
UserMessages == {"m"}
NewTitles == {"t"}

\* Recommender(): ValueError when no API key is configured
Recommender(configured) == [raised |-> ~configured]

\* the methods class Recommender defines
RecommenderMethods == {"chat"}

\* what the completion API does with a request: it fails, it answers with
\* no content, it answers
ChatOutcomes == {"error", "empty", "reply"}

\* Recommender.chat: build the context prompt, call the API, return
\* message.content or ""
recommender_chat(profile, outcome) ==
    IF build_context_prompt(profile).raised \/ outcome = "error"
    THEN [raised |-> TRUE, content |-> ""]
    ELSE [raised |-> FALSE, content |-> IF outcome = "empty" THEN "" ELSE REPLY]

\* the conversation files and the CLI session, as a handler finds them
Store ==
    [path |-> conversation_path, dir |-> conversations_dir, uuids |-> uuids,
     session |-> chat_session, imports |-> imports]

CallOf(op, st) ==
    [NoCall EXCEPT !.op = op, !.pre_dir = st.dir, !.pre_path = st.path,
                   !.pre_session = st.session]

\* GET /chat: migrate the legacy file, redirect to a new temporary id
chat_page(st) ==
    LET m == migrate_legacy_conversation(st.path, st.dir, st.uuids)
    IN [st |-> [st EXCEPT !.path = m.path, !.dir = m.dir, !.uuids = m.uuids,
                          !.imports = IF m.value # <<>> THEN @ + 1 ELSE @],
        call |-> [CallOf("chat_page", st) EXCEPT !.value = m.value]]

\* GET /chat/{conv_id}: the sidebar list, then the conversation itself
chat_conversation(st, conv_id, temp) ==
    LET listed == list_conversations(st.dir)
        got == get_conversation(st.dir, conv_id)
        call == [CallOf("chat_conversation", st) EXCEPT !.conv_id = conv_id, !.temp = temp]
    IN IF temp THEN [st |-> [st EXCEPT !.uuids = @ \cup {conv_id}], call |-> call]
       ELSE [st |-> st, call |-> [call EXCEPT !.raised = got.raised, !.value = got.value]]

\* send_message appending the user message and saving before the recommender is asked
send_message_saves_first(st, profile, conv_id, temp, message, configured, outcome) ==
    LET got == get_conversation(st.dir, conv_id)
        conv == IF temp THEN Conversation(conv_id, DEFAULT_TITLE, <<>>) ELSE got.value[1]
        asked == conversation_add_message(conv, "user", message)
        reply == recommender_chat(profile, outcome)
        response == IF reply.content = "" THEN APOLOGY ELSE reply.content
        answered == conversation_add_message(asked, "assistant", response)
        call == [CallOf("send_message", st) EXCEPT !.conv_id = conv_id, !.temp = temp,
                                                   !.message = message]
        used == IF temp THEN st.uuids \cup {conv_id} ELSE st.uuids
    IN IF ~temp /\ got.raised
       THEN [st |-> st, call |-> [call EXCEPT !.raised = TRUE]]
       ELSE IF ~temp /\ got.value = <<>>
       THEN [st |-> st, call |-> [call EXCEPT !.error = TRUE]]
       ELSE IF Recommender(configured).raised \/ reply.raised
       THEN [st |-> [st EXCEPT !.uuids = used, !.dir = save_conversation_v2(st.dir, asked)],
             call |-> [call EXCEPT !.error = TRUE]]
       ELSE [st |-> [st EXCEPT !.uuids = used,
                               !.dir = save_conversation_v2(st.dir, answered)],
             call |-> [call EXCEPT !.value = <<answered>>]]

\* POST /chat/{conv_id}/send. A temporary id ("new-" + uuid) starts from an
\* empty Conversation under that uuid; any other id is loaded from the store.
\* Everything from Recommender() to the save is inside try / except Exception.
send_message(st, profile, conv_id, temp, message, configured, outcome) ==
    LET got == get_conversation(st.dir, conv_id)
        conv == IF temp THEN Conversation(conv_id, DEFAULT_TITLE, <<>>) ELSE got.value[1]
        reply == recommender_chat(profile, outcome)
        response == IF reply.content = "" THEN APOLOGY ELSE reply.content
        answered == conversation_add_message(
                        conversation_add_message(conv, "user", message),
                        "assistant", response)
        call == [CallOf("send_message", st) EXCEPT !.conv_id = conv_id, !.temp = temp,
                                                   !.message = message]
        used == IF temp THEN st.uuids \cup {conv_id} ELSE st.uuids
    IN IF ~temp /\ got.raised
       THEN [st |-> st, call |-> [call EXCEPT !.raised = TRUE]]
       ELSE IF ~temp /\ got.value = <<>>
       THEN [st |-> st, call |-> [call EXCEPT !.error = TRUE]]
       ELSE IF Recommender(configured).raised \/ reply.raised
       THEN [st |-> [st EXCEPT !.uuids = used], call |-> [call EXCEPT !.error = TRUE]]
       ELSE [st |-> [st EXCEPT !.uuids = used,
                               !.dir = save_conversation_v2(st.dir, answered)],
             call |-> [call EXCEPT !.value = <<answered>>]]

\* POST /chat/{conv_id}/rename
rename_conversation_route(st, conv_id, new_title) ==
    LET renamed == rename_conversation(st.dir, conv_id, new_title)
        call == [CallOf("rename_conversation", st) EXCEPT !.conv_id = conv_id]
    IN IF renamed.raised THEN [st |-> st, call |-> [call EXCEPT !.raised = TRUE]]
       ELSE IF renamed.value = <<>> THEN [st |-> st, call |-> [call EXCEPT !.error = TRUE]]
       ELSE [st |-> [st EXCEPT !.dir = renamed.dir],
             call |-> [call EXCEPT !.value = renamed.value]]

\* DELETE /chat/{conv_id}: when no readable conversation is left, a new one is created
delete_conversation_route(st, conv_id) ==
    LET deleted == delete_conversation(st.dir, conv_id)
        created == create_conversation(deleted.dir, st.uuids, DEFAULT_TITLE)
        call == [CallOf("delete_conversation", st) EXCEPT !.conv_id = conv_id]
    IN IF list_conversations(deleted.dir) # {}
       THEN [st |-> [st EXCEPT !.dir = deleted.dir], call |-> call]
       ELSE [st |-> [st EXCEPT !.dir = created.dir, !.uuids = created.uuids],
             call |-> [call EXCEPT !.value = <<created.value>>]]

\* POST /chat/{conv_id}/generate-title: recommender.generate_title is called
\* inside try / except Exception; a method the class lacks raises AttributeError
generate_title(st, conv_id, configured) ==
    LET got == get_conversation(st.dir, conv_id)
        call == [CallOf("generate_title", st) EXCEPT !.conv_id = conv_id]
        saved == save_conversation_v2(st.dir, [got.value[1] EXCEPT !.title = "generated"])
    IN IF got.raised THEN [st |-> st, call |-> [call EXCEPT !.raised = TRUE]]
       ELSE IF got.value = <<>> \/ Len(got.value[1].messages) < 2
       THEN [st |-> st, call |-> call]
       ELSE IF Recommender(configured).raised \/ "generate_title" \notin RecommenderMethods
       THEN [st |-> st, call |-> call]
       ELSE [st |-> [st EXCEPT !.dir = saved], call |-> call]

\* POST /chat/clear
clear_chat(st) ==
    LET created == create_conversation(st.dir, st.uuids, DEFAULT_TITLE)
    IN [st |-> [st EXCEPT !.dir = created.dir, !.uuids = created.uuids],
        call |-> [CallOf("clear_chat", st) EXCEPT !.value = <<created.value>>]]

\* cli chat, up to the prompt: load the legacy history, construct the
\* recommender (ValueError: print and typer.Exit(1)), greet when there is no history
cli_chat_start(st, configured) ==
    LET loaded == load_conversation(st.path)
        greeted == history_add_message(loaded.value, "assistant", GREETING)
        call == CallOf("cli_chat_start", st)
    IN IF loaded.raised THEN [st |-> st, call |-> [call EXCEPT !.raised = TRUE]]
       ELSE IF Recommender(configured).raised
       THEN [st |-> st, call |-> [call EXCEPT !.error = TRUE]]
       ELSE IF loaded.value.messages = <<>>
       THEN [st |-> [st EXCEPT !.path = save_conversation(st.path, greeted),
                               !.session = [running |-> TRUE, history |-> greeted],
                               !.imports = 0],
             call |-> call]
       ELSE [st |-> [st EXCEPT !.session = [running |-> TRUE, history |-> loaded.value]],
             call |-> call]

\* cli chat, one turn of the loop with a message for the companion: an
\* exception of recommender.chat is printed and the loop continues
cli_chat_turn(st, profile, message, outcome) ==
    LET reply == recommender_chat(profile, outcome)
        answered == history_add_message(
                        history_add_message(st.session.history, "user", message),
                        "assistant", reply.content)
        call == [CallOf("cli_chat_turn", st) EXCEPT !.message = message]
    IN IF reply.raised THEN [st |-> st, call |-> [call EXCEPT !.error = TRUE]]
       ELSE [st |-> [st EXCEPT !.path = save_conversation(st.path, answered),
                               !.session = [running |-> TRUE, history |-> answered],
                               !.imports = 0],
             call |-> [call EXCEPT !.value = <<answered>>]]

\* cli chat, the input "clear": remove the legacy file and load again
cli_chat_clear(st) ==
    LET cleared == clear_conversation(st.path)
    IN [st |-> [st EXCEPT !.path = cleared,
                          !.session = [running |-> TRUE,
                                       history |-> load_conversation(cleared).value],
                          !.imports = 0],
        call |-> CallOf("cli_chat_clear", st)]

\* cli chat, the input "quit" or "exit"
cli_chat_quit(st) ==
    [st |-> [st EXCEPT !.session = NoSession], call |-> CallOf("cli_chat_quit", st)]

ApplyChat(out) ==
    /\ conversation_path' = out.st.path
    /\ conversations_dir' = out.st.dir
    /\ uuids' = out.st.uuids
    /\ chat_session' = out.st.session
    /\ imports' = out.st.imports
    /\ last_call.seq < MaxCalls
    /\ last_call' = [out.call EXCEPT !.seq = last_call.seq + 1]
    /\ UNCHANGED <<syncVars, convVars, xboxVars, gameVars, callVars, raceVars>>

\* a handler that may have to generate a uuid runs while the pool has one left
HasUuid == ConvIds \ uuids # {}

\* the legacy file is one migrate_legacy_conversation imports
Importable(path) == path.exists /\ ~Unreadable(path) /\ path.data.messages # <<>>

ChatPage ==
    /\ Importable(conversation_path) => HasUuid
    /\ ApplyChat(chat_page(Store))

ChatConversation ==
    \E conv_id \in ConvIds, temp \in BOOLEAN : ApplyChat(chat_conversation(Store, conv_id, temp))

SendMessage ==
    \E conv_id \in ConvIds, temp \in BOOLEAN, message \in UserMessages,
       configured \in BOOLEAN, outcome \in ChatOutcomes :
        ApplyChat(send_message(Store, load_profile(profile_file), conv_id, temp, message,
                               configured, outcome))

RenameConversation ==
    \E conv_id \in ConvIds, new_title \in NewTitles :
        ApplyChat(rename_conversation_route(Store, conv_id, new_title))

DeleteConversation ==
    \E conv_id \in ConvIds :
        /\ list_conversations(delete_conversation(conversations_dir, conv_id).dir) = {}
              => HasUuid
        /\ ApplyChat(delete_conversation_route(Store, conv_id))

GenerateTitle ==
    \E conv_id \in ConvIds, configured \in BOOLEAN :
        ApplyChat(generate_title(Store, conv_id, configured))

ClearChat == HasUuid /\ ApplyChat(clear_chat(Store))

CliChatStart ==
    /\ ~chat_session.running
    /\ \E configured \in BOOLEAN : ApplyChat(cli_chat_start(Store, configured))

CliChatTurn ==
    /\ chat_session.running
    /\ \E message \in UserMessages, outcome \in ChatOutcomes :
         ApplyChat(cli_chat_turn(Store, load_profile(profile_file), message, outcome))

CliChatClear == chat_session.running /\ ApplyChat(cli_chat_clear(Store))

CliChatQuit == chat_session.running /\ ApplyChat(cli_chat_quit(Store))

\* the legacy files a chat may find: none, an unreadable one, or a history
\* of alternating messages no longer than its own max_messages
LegacyMessages(n) ==
    [i \in 1..n |-> ConversationMessage(IF i % 2 = 1 THEN "assistant" ELSE "user", "old")]
LegacyFiles ==
    {NoLegacyFile} \cup {BadFile(f, ConversationHistory(<<>>)) : f \in FileFormats \ {"ok"}}
    \cup UNION {{File([messages |-> LegacyMessages(n), max_messages |-> c]) : n \in 0..c} :
                c \in {MaxMessagesDefault, LegacyCap}}

\* the profile a chat may find: none, or one with a game in it
ChatProfiles ==
    {NoFile(UserProfile),
     File([UserProfile EXCEPT !.games = <<Game(<<"steam", 1>>, STEAM, 90, <<>>)>>])}

\* conversation files a crash left unreadable, under uuids generated earlier
DamagedDirs ==
    [ConvIds -> {NoConversationFile, BadFile("not_json", Conversation(0, "", <<>>))}]

InitChat ==
    /\ profile_file \in ChatProfiles
    /\ req = Idle
    /\ ConvIdle /\ XboxIdle /\ GameIdle /\ CallIdle /\ RaceIdle
    /\ conversation_path \in LegacyFiles
    /\ conversations_dir \in DamagedDirs
    /\ uuids = {i \in ConvIds : conversations_dir[i].exists}
    /\ chat_session = NoSession
    /\ imports = 0
    /\ last_call = NoCall

NextChat ==
    \/ ChatPage
    \/ ChatConversation
    \/ SendMessage
    \/ RenameConversation
    \/ DeleteConversation
    \/ GenerateTitle
    \/ ClearChat
    \/ CliChatStart
    \/ CliChatTurn
    \/ CliChatClear
    \/ CliChatQuit

SpecChat == InitChat /\ [][NextChat]_vars

-----------------------------------------------------------------------------
(* Properties of the sync handlers (specification Spec) *)

\* the profile a load would return now, and the one the handler started from
Persisted == IF profile_file.exists THEN profile_file.data ELSE UserProfile
Before == IF req.pre.exists THEN req.pre.data ELSE UserProfile

GamesOf(games, platform) == SelectSeq(games, LAMBDA g : g.platform = platform)
NotOf(games, platform) == SelectSeq(games, LAMBDA g : g.platform # platform)

Saved == req.saves = 1
SteamOps == {"sync_steam", "cli_sync", "refresh_library"}
PsnOps == {"sync_psn", "cli_sync_psn"}
XboxOps == {"sync_xbox"}

\* the platform a single-platform handler syncs and what it fetched
PlatformOfOp == IF req.op \in SteamOps THEN STEAM
                ELSE IF req.op \in PsnOps THEN PLAYSTATION ELSE XBOX
ResultOf(platform) == IF platform = STEAM THEN req.steam
                      ELSE IF platform = PLAYSTATION THEN req.psn ELSE req.xbox
ResultOfOp == ResultOf(PlatformOfOp)

\* C1: every Steam sync (web /sync/steam, the Steam step of /sync/all, CLI sync,
\* CLI /refresh) leaves the PlayStation and Xbox games of the persisted profile
\* present and unchanged
C1_MergeIsolation ==
    /\ (req.op \in SteamOps /\ Saved) =>
          NotOf(Persisted.games, STEAM) = NotOf(Before.games, STEAM)
    /\ (req.op = "sync_all" /\ Saved /\ req.steam.kind = "ok") =>
          \A pl \in {PLAYSTATION, XBOX} :
             ResultOf(pl).kind # "ok" =>
                GamesOf(Persisted.games, pl) = GamesOf(Before.games, pl)

\* C2: after a successful sync of platform P with fetched list L the game list is
\* the previous list without the games of P, in their order, followed by L; no
\* previous game of P that is absent from L survives
C2_ReplaceByPartition ==
    (req.op \in SteamOps \cup PsnOps \cup XboxOps /\ Saved) =>
       /\ Persisted.games = NotOf(Before.games, PlatformOfOp) \o ResultOfOp.games
       /\ \A g \in Range(Before.games) :
             (g.platform = PlatformOfOp /\ g \notin Range(ResultOfOp.games))
                => g \notin Range(Persisted.games)

\* C3: /sync/all reaches save_profile exactly once whatever fails, and the
\* persisted profile holds the fetched games of each platform that succeeded and
\* the stored games of each platform that failed
C3_SyncAllPartialSuccess ==
    req.op = "sync_all" =>
       /\ req.saves = 1
       /\ \A pl \in {STEAM, PLAYSTATION, XBOX} :
             GamesOf(Persisted.games, pl) =
                IF ResultOf(pl).kind = "ok" THEN ResultOf(pl).games
                ELSE GamesOf(Before.games, pl)

\* C6: after any sequence of syncs whose fetched lists repeat no native id, no two
\* games of the persisted profile share an id and every id prefix agrees with the
\* game's platform
C6_IdUniqueness ==
    LET games == Persisted.games
    IN /\ \A i, j \in 1..Len(games) : i # j => games[i].id # games[j].id
       /\ \A i \in 1..Len(games) : games[i].id[1] = PrefixOf(games[i].platform)

\* a profile with games of all three platforms, two of them of one platform
C6_Witness ==
    /\ \A pl \in {STEAM, PLAYSTATION, XBOX} : GamesOf(Persisted.games, pl) # <<>>
    /\ Len(Persisted.games) >= 4

\* C7: syncing a platform twice in a row with the same fetched list leaves the game
\* list of the first sync: same games, same order, same count
C7_MergeIdempotence ==
    (req.repeat /\ Saved) => Persisted.games = Before.games

\* /sync/psn ran twice with the same two games, next to games of another platform
C7_Witness ==
    /\ req.repeat
    /\ Saved
    /\ req.op = "sync_psn"
    /\ Len(req.psn.games) = 2
    /\ NotOf(Persisted.games, PLAYSTATION) # <<>>

\* C8: when the client construction or a fetch of /sync/steam, /sync/psn,
\* /sync/xbox, CLI sync or CLI sync-psn fails, save_profile is not called and the
\* profile file (games, wishlist, identities, updated_at) is unchanged
C8_FailedSyncNoOp ==
    (req.op \in {"sync_steam", "sync_psn", "sync_xbox", "cli_sync", "cli_sync_psn"}
        /\ ResultOfOp.kind # "ok") =>
       /\ req.saves = 0
       /\ profile_file = req.pre

\* /sync/xbox failed on a profile that holds Xbox games
C8_Witness ==
    /\ req.op = "sync_xbox"
    /\ req.xbox.kind = "api_error"
    /\ GamesOf(Persisted.games, XBOX) # <<>>
    /\ Persisted.wishlist # <<>>

\* C9: after a successful Steam sync the wishlist is exactly the one fetched in
\* that sync; PlayStation and Xbox syncs leave the wishlist unchanged
C9_WishlistReplacement ==
    /\ (req.op \in SteamOps /\ Saved) => Persisted.wishlist = req.steam.wishlist
    /\ (req.op = "sync_all" /\ Saved) =>
          Persisted.wishlist =
             IF req.steam.kind = "ok" THEN req.steam.wishlist ELSE Before.wishlist
    /\ (req.op \in PsnOps \cup XboxOps) => Persisted.wishlist = Before.wishlist

\* a Steam sync fetched an empty wishlist over a stored item, which is gone
C9_Witness ==
    /\ req.op = "sync_steam"
    /\ Saved
    /\ Before.wishlist # <<>>
    /\ req.steam.wishlist = <<>>
    /\ Persisted.wishlist = <<>>

-----------------------------------------------------------------------------
(* Properties of add_message (specification SpecConv) *)

\* the last k elements of a log, in order
LastOf(log, k) == [i \in 1..Min(k, Len(log)) |-> log[Len(log) - Min(k, Len(log)) + i]]

\* C4: for every max_messages >= 0 the number of stored messages is at most
\* max_messages after each add_message
C4_MessageCap ==
    /\ Len(history.messages) <= history.max_messages
    /\ Len(conversation.messages) <= conversation.max_messages

\* C5: with max_messages = m >= 1, after n add_message calls on an empty
\* conversation the stored messages are the last min(n, m) appended, in order
C5_EvictionOrder ==
    /\ history.max_messages >= 1 =>
          history.messages = LastOf(historyLog, history.max_messages)
    /\ conversation.max_messages >= 1 =>
          conversation.messages = LastOf(conversationLog, conversation.max_messages)

\* both logs have overflowed a cap of at least two
C5_Witness ==
    /\ history.max_messages >= 2
    /\ Len(historyLog) > history.max_messages
    /\ conversation.max_messages >= 2
    /\ Len(conversationLog) > conversation.max_messages

-----------------------------------------------------------------------------
(* Properties of the Xbox estimate (specification SpecXbox) *)

\* C10: with totalAchievements = 0, currentAchievements = u > 0 and
\* progressPercentage = p, 0 < p <= 100, the estimate is max(round(u * 100 / p), u)
C10_PercentageEstimate ==
    (/\ total_ach # -1
     /\ title.totalAchievements = 0
     /\ title.currentAchievements > 0
     /\ title.progressPercentage > 0
     /\ title.progressPercentage <= 100) =>
       total_ach = Max(RoundOfQuotient(title.currentAchievements * 100,
                                       title.progressPercentage),
                       title.currentAchievements)

\* C11: with totalAchievements = 0, currentAchievements = u > 0, progressPercentage
\* = 0 and totalGamerscore = g > 0 the estimate is max(floor(g / 20), u); with a
\* percentage above 0 the estimate does not depend on the gamerscore
C11_GamerscoreFallback ==
    (total_ach # -1 /\ title.totalAchievements = 0 /\ title.currentAchievements > 0) =>
       /\ (title.progressPercentage = 0 /\ title.totalGamerscore > 0) =>
             total_ach = Max(title.totalGamerscore \div 20, title.currentAchievements)
       /\ title.progressPercentage > 0 =>
             total_ach = IF title.progressPercentage = 100 THEN title.currentAchievements
                         ELSE Max(IntOfQuotient(title.currentAchievements * 100,
                                                title.progressPercentage),
                                  title.currentAchievements)

\* u = 5, g = 300 gave 15
C11_Witness ==
    /\ title.totalAchievements = 0
    /\ title.currentAchievements = 5
    /\ title.progressPercentage = 0
    /\ title.totalGamerscore = 300
    /\ total_ach = 15

\* C12: whatever the reported numbers, stats the normaliser builds for a game have
\* total >= unlocked
C12_XboxClamp ==
    (total_ach # -1 /\ achievement_stats # <<>>) =>
       achievement_stats[1].total >= achievement_stats[1].unlocked

\* stats built from a reported total that is positive and below the unlocked count
C12_Witness ==
    /\ total_ach # -1
    /\ title.totalAchievements > 0
    /\ title.totalAchievements < title.currentAchievements
    /\ achievement_stats # <<>>

-----------------------------------------------------------------------------
(* Properties of the stored games (specification SpecGame) *)

\* the platform reported achievement or trophy counts for this item
ReportedCounts(platform, item) ==
    IF platform = STEAM
    THEN item.playtime_forever >= EnrichMinPlaytime /\ item.achievements # <<>>
    ELSE IF platform = PLAYSTATION THEN item.defined_trophies # <<>>
    ELSE /\ item.type = "Game"
         /\ item.achievement # <<>>
         /\ \/ item.achievement[1].totalAchievements > 0
            \/ item.achievement[1].currentAchievements > 0

NativeId(platform, item) ==
    IF platform = STEAM THEN item.appid
    ELSE IF platform = PLAYSTATION THEN item.np_communication_id ELSE item.titleId

\* C13: after any sequence of syncs every persisted game has playtime_minutes >= 0
\* and a progress, when present, of its platform's variant with total >= unlocked
\* >= 0; and every game the platform of the last sync reported with counts is
\* persisted carrying such a progress
C13_GameInvariant ==
    /\ \A g \in Range(Persisted.games) :
          /\ g.playtime_minutes >= 0
          /\ g.progress # <<>> =>
                /\ g.progress[1].type = g.platform
                /\ g.progress[1].total >= g.progress[1].unlocked
                /\ g.progress[1].unlocked >= 0
    /\ \A i \in 1..Len(api_response.items) :
          ReportedCounts(api_response.platform, api_response.items[i]) =>
             \E g \in Range(Persisted.games) :
                /\ g.id = <<PrefixOf(api_response.platform),
                            NativeId(api_response.platform, api_response.items[i])>>
                /\ g.progress # <<>>

-----------------------------------------------------------------------------
(* Properties of percent_to_rarity_tier (specification SpecRarity) *)

-----------------------------------------------------------------------------
(* Properties of completion_percent (specification SpecCompletion) *)

\* C15: for each progress variant completion_percent is 0.0 when total = 0 and
\* otherwise the one-decimal value nearest to unlocked / total * 100, whatever
\* the other counts; a Game without progress gives 0.0; with 0 <= unlocked <=
\* total the value is within [0, 100]
C15_CompletionPercent ==
    returned # <<>> =>
       LET tenths == returned[1]
           game == args.game
       IN IF game.progress = <<>> THEN tenths = 0
          ELSE LET total == game.progress[1].total
                   unlocked == game.progress[1].unlocked
                   distance == tenths * total - unlocked * 1000
               IN /\ total = 0 => tenths = 0
                  /\ total > 0 =>
                        /\ 2 * distance <= total
                        /\ 2 * distance >= 0 - total
                  /\ unlocked <= total => (tenths >= 0 /\ tenths <= 1000)

\* 7 of 20 on an Xbox value with gamerscore gave 35.0
C15_Witness ==
    /\ args.game.progress # <<>>
    /\ args.game.progress[1].type = "xbox"
    /\ args.game.progress[1].total = 20
    /\ args.game.progress[1].unlocked = 7
    /\ args.game.progress[1].total_gamerscore = 1000
    /\ returned = <<350>>

-----------------------------------------------------------------------------
(* Properties of build_context_prompt (specification SpecDigest) *)

NonIncreasing(keys) ==
    \A i \in 1..Len(keys) : \A j \in 1..Len(keys) : i < j => keys[i] >= keys[j]

\* C16: on a profile without games the builder returns the "hasn't synced yet"
\* placeholder; on a profile of one game with playtime above 0 and no achievement
\* data it returns, without raising, a digest whose top-played section lists the
\* game and whose completion section is its placeholder
C16_BuilderBaseCases ==
    returned # <<>> =>
       LET games == args.profile.games
           digest == returned[1]
       IN /\ games = <<>> => (~digest.raised /\ digest = NotSynced)
          /\ (Len(games) = 1 /\ games[1].playtime_minutes > 0 /\ games[1].progress = <<>>) =>
                /\ ~digest.raised
                /\ digest.top_played.entries = games
                /\ digest.completed.entries = <<>>
                /\ digest.completed.placeholder # ""

\* C17: for every profile the top-played section lists min(10, n) games by
\* playtime, largest first; the completion section at most 5 games of completion
\* >= 50%, largest first; the backlog at most 10 games of playtime 0; the
\* wishlist at most 10 items on sale, then at most 5 that are not
C17_DigestBounds ==
    (returned # <<>> /\ args.profile.games # <<>>) =>
       LET digest == returned[1]
       IN /\ ~digest.raised
          /\ Len(digest.top_played.entries) = Min(TopPlayedLimit, Len(args.profile.games))
          /\ NonIncreasing(playtimes(digest.top_played.entries))
          /\ Len(digest.completed.entries) <= CompletedLimit
          /\ \A g \in Range(digest.completed.entries) :
                game_completion_percent(g) >= LovedTenths
          /\ NonIncreasing([i \in 1..Len(digest.completed.entries) |->
                             game_completion_percent(digest.completed.entries[i])])
          /\ Len(digest.unplayed.entries) <= UnplayedLimit
          /\ \A g \in Range(digest.unplayed.entries) : g.playtime_minutes = 0
          /\ Len(digest.on_sale.entries) <= OnSaleLimit
          /\ \A item \in Range(digest.on_sale.entries) : is_on_sale(item)
          /\ Len(digest.other.entries) <= NotOnSaleLimit
          /\ \A item \in Range(digest.other.entries) : ~is_on_sale(item)

\* C18: the recent section holds only games with a last-played time, at most 5,
\* latest first; without any such game it is the "No recent play data
\* available" placeholder
C18_RecentSection ==
    (returned # <<>> /\ args.profile.games # <<>>) =>
       LET digest == returned[1]
           timed == SelectSeq(args.profile.games, LAMBDA g : g.last_played # <<>>)
       IN /\ ~digest.raised
          /\ Len(digest.recent.entries) = Min(RecentLimit, Len(timed))
          /\ \A g \in Range(digest.recent.entries) : g \in Range(timed)
          /\ NonIncreasing(last_playeds(digest.recent.entries))
          /\ timed = <<>> => digest.recent.placeholder = "  No recent play data available"

\* C19: for every profile with games the digest states the library size and a
\* count for each platform with at least one game, and the counts sum to the size
C19_PlatformCounts ==
    (returned # <<>> /\ args.profile.games # <<>>) =>
       LET digest == returned[1]
           stated(pl) == {i \in 1..Len(digest.platforms) : digest.platforms[i].platform = pl}
           count(pl) == IF stated(pl) = {} THEN 0
                        ELSE digest.platforms[CHOOSE i \in stated(pl) : TRUE].games
       IN /\ ~digest.raised
          /\ digest.total = Len(args.profile.games)
          /\ \A pl \in {STEAM, PLAYSTATION, XBOX} :
                GamesOf(args.profile.games, pl) # <<>> =>
                   (stated(pl) # {} /\ count(pl) = Len(GamesOf(args.profile.games, pl)))
          /\ count(STEAM) + count(PLAYSTATION) + count(XBOX) = digest.total

\* C20: for every profile with games, each of the recent, completion, backlog,
\* preferences and wishlist categories that has no entries is rendered as a
\* placeholder that is not the empty string
C20_StablePromptStructure ==
    (returned # <<>> /\ args.profile.games # <<>>) =>
       LET digest == returned[1]
           shown(section) == section.entries # <<>> \/ section.placeholder # ""
       IN /\ ~digest.raised
          /\ shown(digest.recent)
          /\ shown(digest.completed)
          /\ shown(digest.unplayed)
          /\ shown(digest.prefs)
          /\ shown(digest.on_sale) \/ shown(digest.other)

-----------------------------------------------------------------------------
(* Properties of the conversation store and the chat handlers                *)
(* (specification SpecChat)                                                  *)

\* the messages a readable file of the store holds; none for any other file
StoredMessages(dir, conv_id) ==
    IF dir[conv_id].exists /\ ~Unreadable(dir[conv_id]) THEN dir[conv_id].data.messages
    ELSE <<>>

\* the last k elements of a sequence that has at least k
Tail2(seq) == SubSeq(seq, Len(seq) - 1, Len(seq))

\* C21: every call of migrate_legacy_conversation (GET /chat) that finds a
\* readable legacy file, whatever its message list, removes the file and
\* leaves in the store one new conversation titled "Imported Conversation"
\* holding the legacy messages in their order.
C21_LegacyMigration ==
    (last_call.op = "chat_page" /\ last_call.pre_path.exists
        /\ ~Unreadable(last_call.pre_path))
    => /\ ~conversation_path.exists
       /\ last_call.value # <<>>
       /\ LET id == last_call.value[1].id
          IN /\ ~last_call.pre_dir[id].exists
             /\ conversations_dir[id].exists
             /\ conversations_dir[id].data.title = IMPORTED_TITLE
             /\ conversations_dir[id].data.messages = last_call.pre_path.data.messages
             /\ \A other \in ConvIds \ {id} :
                    conversations_dir[other] = last_call.pre_dir[other]

\* C22: a call of migrate_legacy_conversation without a legacy file returns
\* None and leaves the store and the legacy path as they were, and one
\* legacy file is imported at most once however often the call is repeated.
C22_MigrationIdempotence ==
    /\ (last_call.op = "chat_page" /\ ~last_call.pre_path.exists)
          => /\ last_call.value = <<>>
             /\ conversations_dir = last_call.pre_dir
             /\ conversation_path = last_call.pre_path
    /\ imports <= 1

\* GET /chat called again after the call that imported the legacy file
C22_Witness ==
    /\ last_call.op = "chat_page"
    /\ ~last_call.pre_path.exists
    /\ imports = 1
    /\ \E id \in ConvIds : /\ conversations_dir[id].exists
                            /\ conversations_dir[id].data.title = IMPORTED_TITLE

C28_ConversationLoadsNeverRaise ==
    last_call.op \in {"chat_conversation", "cli_chat_start"} => ~last_call.raised

\* C29: after a successful send_message the persisted conversation holds the
\* messages persisted under that id before the request, then the user
\* message, then the reply, less what max_messages evicts.
C29_NoMessageLossOnSend ==
    (last_call.op = "send_message" /\ ~last_call.error /\ ~last_call.raised)
    => LET id == last_call.conv_id
           stored == conversations_dir[id].data
           before == StoredMessages(last_call.pre_dir, id)
           asked == Trim(Append(before, ConversationMessage("user", last_call.message)),
                         stored.max_messages)
       IN /\ conversations_dir[id].exists
          /\ stored.messages # <<>>
          /\ stored.messages[Len(stored.messages)].role = "assistant"
          /\ stored.messages =
                Trim(Append(asked, stored.messages[Len(stored.messages)]), stored.max_messages)

\* C30: a chat that fails (no recommender, or recommender.chat raising) is
\* reported without an exception leaving the handler and leaves the
\* conversation files and the in-memory history as they were; a chat that
\* succeeds persists the user message followed by the reply as the last two
\* messages.
C30_FailedChatLeavesHistory ==
    /\ (last_call.op = "send_message" /\ last_call.error)
          => /\ ~last_call.raised
             /\ conversations_dir = last_call.pre_dir
             /\ conversation_path = last_call.pre_path
    /\ (last_call.op = "send_message" /\ ~last_call.error /\ ~last_call.raised)
          => LET stored == conversations_dir[last_call.conv_id].data.messages
             IN /\ Len(stored) >= 2
                /\ Tail2(stored)[1] = ConversationMessage("user", last_call.message)
                /\ Tail2(stored)[2].role = "assistant"
    /\ (last_call.op \in {"cli_chat_start", "cli_chat_turn"} /\ last_call.error)
          => /\ ~last_call.raised
             /\ conversation_path = last_call.pre_path
             /\ conversations_dir = last_call.pre_dir
             /\ chat_session = last_call.pre_session
    /\ (last_call.op = "cli_chat_turn" /\ ~last_call.error)
          => LET stored == conversation_path.data.messages
             IN /\ conversation_path.exists
                /\ conversation_path.data = chat_session.history
                /\ Len(stored) >= 2
                /\ Tail2(stored)[1] = ConversationMessage("user", last_call.message)
                /\ Tail2(stored)[2].role = "assistant"

\* a send to a temporary id failed: no file was created under its uuid
C30_Witness ==
    /\ last_call.op = "send_message"
    /\ last_call.error
    /\ last_call.temp
    /\ ~last_call.pre_dir[last_call.conv_id].exists
    /\ ~conversations_dir[last_call.conv_id].exists

-----------------------------------------------------------------------------
(* Properties of load_profile (specification SpecLoad) *)

\* C24: load_profile never raises; without a file, with a file that is not
\* JSON and with JSON that does not fit the schema it returns the default
\* profile (no games, no wishlist, no platform identity); a readable file
\* gives the profile it holds; the file is left as it was.
C24_LoadProfileTotal ==
    /\ profile_file = args.file
    /\ returned # <<>>
         => /\ ~returned[1].raised
            /\ (~profile_file.exists \/ Unreadable(profile_file))
                  => /\ returned[1].value = UserProfile
                     /\ returned[1].value.games = <<>>
                     /\ returned[1].value.wishlist = <<>>
                     /\ returned[1].value.steam_id = "None"
                     /\ returned[1].value.psn_online_id = "None"
                     /\ returned[1].value.xbox_gamertag = "None"
            /\ (profile_file.exists /\ ~Unreadable(profile_file))
                  => returned[1].value = profile_file.data

\* load_profile has returned from a file whose JSON does not fit the schema
C24_Witness ==
    /\ returned # <<>>
    /\ profile_file.exists
    /\ model_validate_raises(profile_file)
    /\ ~returned[1].raised
    /\ returned[1].value.games = <<>>

-----------------------------------------------------------------------------
(* Properties of concurrent sync requests (specification SpecRace) *)

\* the platforms whose games a request replaces
Touches(proc) ==
    CASE proc.handler = "sync_steam" -> {STEAM}
      [] proc.handler \in {"sync_psn", "cli_sync_psn"} -> {PLAYSTATION}
      [] proc.handler = "sync_all" ->
            {pl \in {STEAM, PLAYSTATION} :
                (IF pl = STEAM THEN proc.steam.kind ELSE proc.psn.kind) = "ok"}
      [] OTHER -> {}

Fetched(proc, platform) == IF platform = STEAM THEN proc.steam.games ELSE proc.psn.games

\* request q read the file before request p saved it, and saved after p
Overlapped(p, q) ==
    /\ p # q
    /\ procs[p].pc = "done"
    /\ procs[q].pc = "done"
    /\ writes = <<p, q>>
    /\ procs[q].loaded_at = 0
    /\ Touches(procs[p]) \cap Touches(procs[q]) = {}

\* C25: when two requests for different platforms overlap (the later writer
\* loaded the profile before the earlier writer saved), the profile persisted
\* in the end holds, for the earlier writer's platforms, the games from before
\* its save: its update is overwritten.
C25_LostUpdate ==
    \A p, q \in Procs :
        Overlapped(p, q)
        => \A pl \in Touches(procs[p]) :
              GamesOf(load_profile(profile_file).games, pl)
                  = GamesOf(load_profile(procs[q].loaded).games, pl)

\* two overlapping requests have both returned and a game the earlier writer
\* merged is not in the persisted profile
C25_Witness ==
    \E p, q \in Procs :
        /\ Overlapped(p, q)
        /\ \E pl \in Touches(procs[p]) :
              \E g \in Range(Fetched(procs[p], pl)) :
                  g \notin Range(load_profile(profile_file).games)

-----------------------------------------------------------------------------
(* Properties of the Steam enrichment (specification SpecEnrich) *)

\* a web Steam sync has returned; its input and what it stored
Enriched == req.op = "sync_steam" /\ api_response.platform = STEAM /\ api_response.items # <<>>
EnrichInput == api_response.items[1]
EnrichStored == load_profile(profile_file)

\* the lookups of game i that the sync makes
AsksAchievements(i) == EnrichInput.games[i].playtime_forever >= EnrichMinPlaytime
AsksNames(i) ==
    /\ EnrichInput.display_language \in {"zh", "schinese"}
    /\ EnrichInput.games[i].playtime_forever > 0

-----------------------------------------------------------------------------
(* Properties of the PlayStation trophy fetch (specification SpecTrophies) *)

\* get_owned_games has returned
TrophiesFetched == returned # <<>> /\ "trophy_titles" \in DOMAIN args

\* fetching the trophies of title i raised
FetchFailed(i) ==
    /\ args.trophy_titles[i].defined_trophies # <<>>
    /\ args.trophy_titles[i].fetch.title_platform
    /\ args.trophy_titles[i].fetch.fails_at # <<>>

TierSum(set) == IF set = <<>> THEN 0 ELSE set[1].bronze + set[1].silver + set[1].gold + set[1].platinum

\* C27: get_owned_games returns one game per trophy title, in order; a title
\* with defined trophies whose trophy fetch raised, after any number of
\* trophies, has total and unlocked equal to the sums of its defined and earned
\* tier counts and an empty trophy list.
C27_TrophyFetchDegrades ==
    TrophiesFetched =>
        /\ Len(returned[1]) = Len(args.trophy_titles)
        /\ \A i \in 1..Len(args.trophy_titles) :
              LET t == args.trophy_titles[i]
                  g == returned[1][i]
              IN /\ g.id = <<"psn", t.np_communication_id>>
                 /\ FetchFailed(i)
                       => /\ g.progress # <<>>
                          /\ g.progress[1].total = TierSum(t.defined_trophies)
                          /\ g.progress[1].unlocked = TierSum(t.earned_trophies)
                          /\ g.progress[1].trophies = <<>>

\* the fetch of the first title's trophies raised after one trophy, and the
\* second title was returned with its trophies
C27_Witness ==
    /\ TrophiesFetched
    /\ Len(args.trophy_titles) = 2
    /\ FetchFailed(1)
    /\ args.trophy_titles[1].fetch.fails_at = <<1>>
    /\ args.trophy_titles[1].fetch.invalid = <<>>
    /\ returned[1][1].progress[1].total > 0
    /\ returned[1][2].progress # <<>>
    /\ returned[1][2].progress[1].trophies # <<>>

====
